---- MODULE Spec2Model ----
(***************************************************************************)
(* A state-machine model of wisdom-mcp: the Ed25519 signing wrappers, the  *)
(* canonical signable payloads, the LRU address cache, the address string  *)
(* form, the evidence / derivation-chain / contradiction / context tools,  *)
(* the transform presets, the tool-call dispatcher with the signing tools, *)
(* the address cache across the tools of a session, and the configuration  *)
(* in memory and on disk under the project and key pair tools.             *)
(*                                                                         *)
(* Each component has its own specification (SpecCrypto, SpecPayload,      *)
(* SpecCache, SpecAddress, SpecEvidence, SpecChain, SpecContext,           *)
(* SpecPreset, SpecServer, SpecSession, SpecContra, SpecProject,           *)
(* SpecKeys); the variables of the other components stay at their idle     *)
(* values.                                                                 *)
(***************************************************************************)
EXTENDS Integers, Sequences, FiniteSets, TLC

VARIABLES
    \* ---- crypto/signing.ts, crypto/keys.ts ----
    signedMsg,      \* the message last given to sign(), or NoMsg
    signedKey,      \* the private key it was signed with
    signature,      \* the base64 text sign() returned
    verMsg,         \* the message last given to verify()
    verKey,         \* the public key last given to verify()
    verResult,      \* what verify() returned
    \* ---- crypto/signing.ts, signable payloads ----
    entKind,        \* "fragment" or "relation"
    entA,           \* an entity object (ordered list of properties)
    entB,           \* the same entity with properties listed in another order
    swaps,          \* number of reorderings and changes applied to entB
    \* ---- server.ts, AddressCache ----
    cache,          \* the Map, as the sequence of its entries in insertion order
    maxSize,        \* the constructor argument
    lastTouch,      \* history: key -> time of its last put or get hit (0: never)
    lastPut,        \* history: key -> address given to its last put
    clock,          \* history: number of cache operations so far
    cacheOp,        \* the last operation, its arguments and its return value
    \* ---- gateway/types.ts, addressToString / parseAddress ----
    addrIn,         \* the Address last serialised
    addrStr,        \* its string form
    addrOut,        \* the result of parsing addrStr
    \* ---- the gateway (external) ----
    gwRelations,    \* the relations the gateway stores, in listing order
    gwFailing,      \* the fragment UUIDs whose GET fails
    \* ---- tools/validity.ts ----
    evResult,       \* result of the last wisdom_get_evidence_balance call
    chainResult,    \* result of the last wisdom_check_derivation_chain call
    contraResult,   \* result of the last wisdom_find_contradictions call
    gwSearch,       \* the fragments a gateway search returns, in result order
    ctxResult,      \* result of the last wisdom_load_context_for_task call
    \* ---- transforms/presets.ts ----
    presetCall,     \* the last selectPreset call: its arguments and result
    \* ---- server.ts, crypto/keys.ts, gateway/client.ts ----
    config,         \* context.config.config: private_key and agent_uuid
    keyManager,     \* the KeyManager: its privateKey
    gwHubHeaders,   \* the hub status headers the gateway's responses carry
    lastHubStatus,  \* GatewayClient.lastHubStatus
    lastHeaders,    \* history: the hub headers of the last gateway response received
    gwRequests,     \* history: the gateway requests of the current tool call
    response,       \* the dispatcher's response to the current tool call
    \* ---- tools/fragments.ts, tools/tags.ts, tools/relations.ts, transforms ----
    cfgHubHost,     \* context.config.config.hub_host
    gwFragments,    \* the fragments the gateway stores, in listing order
    sessCall,       \* the last tool call of the session and what it sent
    \* ---- config/loader.ts, server.ts updateConfig, project / keypair tools ----
    memConfig,      \* context.config.config: private_key, agent_uuid, current_project
    projectFile,    \* the project's .wisdom/config.json
    globalFile,     \* ~/.config/wisdom/config.json
    envConfig,      \* the WISDOM_* environment variables
    hasProjectRoot, \* context.config.paths.projectConfig is not null
    generated,      \* key pairs generated so far
    pendingSaves,   \* saves scheduled by updateConfig's import().then()
    saveRejected,   \* history: a scheduled save threw; nobody awaits that promise
    cfgResponse     \* the response of the last project / keypair tool call

cryptoVars  == <<signedMsg, signedKey, signature, verMsg, verKey, verResult>>
payloadVars == <<entKind, entA, entB, swaps>>
cacheVars   == <<cache, maxSize, lastTouch, lastPut, clock, cacheOp>>
addressVars == <<addrIn, addrStr, addrOut>>
gatewayVars == <<gwRelations, gwFailing>>
toolVars    == <<evResult, chainResult, contraResult>>
contextVars == <<gwSearch, ctxResult>>
presetVars  == <<presetCall>>
serverVars  == <<config, keyManager, gwHubHeaders, lastHubStatus, lastHeaders, gwRequests,
                 response>>
sessionVars == <<cfgHubHost, gwFragments, sessCall>>
configVars  == <<memConfig, projectFile, globalFile, envConfig, hasProjectRoot, generated, pendingSaves, saveRejected, cfgResponse>>
vars == <<cryptoVars, payloadVars, cacheVars, addressVars, gatewayVars, toolVars,
          contextVars, presetVars, serverVars, sessionVars, configVars>>

NoValue == "none"

Min(a, b) == IF a < b THEN a ELSE b

RECURSIVE Flatten(_)
Flatten(seqs) == IF seqs = <<>> THEN <<>> ELSE Head(seqs) \o Flatten(Tail(seqs))

(***************************************************************************)
(* Bounds of the model.                                                    *)
(***************************************************************************)
MaxMsgLen == 2          \* code units in a signed string
NumKeys == 2            \* key pairs
MaxSwaps == 2           \* reorderings applied to an entity object
MaxCap == 2             \* largest capacity an AddressCache is built with
MaxOps == 4             \* operations on an AddressCache
MaxEvRelations == 2     \* relations stored at the gateway (evidence balance)
MaxChainRelations == 4  \* relations stored at the gateway (derivation chain)
MaxDepthArg == 3        \* largest max_depth a caller passes
MaxSearchItems == 3     \* fragments a gateway search returns
MaxContraRelations == 3 \* relations stored at the gateway (contradictions)
MaxFragments == 3       \* fragments given to wisdom_store_transformed_fragments

(***************************************************************************)
(* crypto/keys.ts and crypto/signing.ts: sign / verify.                    *)
(*                                                                         *)
(* A message is a JavaScript string (its UTF-16 code units) or a           *)
(* Uint8Array (its bytes).  A base64 text is the sequence of its alphabet  *)
(* indices 0..63, with 64 standing for the padding character '='.          *)
(***************************************************************************)
NoMsg == [kind |-> "none", data |-> <<>>]
StringMsg(units) == [kind |-> "string", data |-> units]
BytesMsg(bytes) == [kind |-> "bytes", data |-> bytes]

IsHighSurrogate(c) == c >= 55296 /\ c <= 56319
IsLowSurrogate(c) == c >= 56320 /\ c <= 57343

\* UTF-8 bytes of one code point.
Utf8OfCodePoint(cp) ==
    IF cp < 128 THEN <<cp>>
    ELSE IF cp < 2048 THEN <<192 + (cp \div 64), 128 + (cp % 64)>>
    ELSE IF cp < 65536
        THEN <<224 + (cp \div 4096), 128 + ((cp \div 64) % 64), 128 + (cp % 64)>>
    ELSE <<240 + (cp \div 262144), 128 + ((cp \div 4096) % 64),
           128 + ((cp \div 64) % 64), 128 + (cp % 64)>>

\* new TextEncoder().encode(s): a surrogate pair is one code point, an
\* unpaired surrogate is replaced by U+FFFD.
RECURSIVE TextEncode(_)
TextEncode(units) ==
    IF units = <<>> THEN <<>>
    ELSE LET c == Head(units) IN
        IF IsHighSurrogate(c) /\ Len(units) >= 2 /\ IsLowSurrogate(units[2])
        THEN Utf8OfCodePoint(65536 + (c - 55296) * 1024 + (units[2] - 56320))
                \o TextEncode(Tail(Tail(units)))
        ELSE IF IsHighSurrogate(c) \/ IsLowSurrogate(c)
        THEN Utf8OfCodePoint(65533) \o TextEncode(Tail(units))
        ELSE Utf8OfCodePoint(c) \o TextEncode(Tail(units))

\* typeof message === 'string' ? new TextEncoder().encode(message) : message
MessageBytes(message) ==
    IF message.kind = "string" THEN TextEncode(message.data) ELSE message.data

ByteBits(b) == [i \in 1..8 |-> (b \div (2 ^ (8 - i))) % 2]

BitsOf(bytes) == Flatten([i \in 1..Len(bytes) |-> ByteBits(bytes[i])])

\* The value of the bits from position `from`, `width` of them, zero-filled
\* past the end.
BitsValue(bits, from, width) ==
    LET bit(i) == IF from + i - 1 <= Len(bits) THEN bits[from + i - 1] ELSE 0
        RECURSIVE val(_)
        val(i) == IF i = 0 THEN 0 ELSE 2 * val(i - 1) + bit(i)
    IN val(width)

\* A toBase64 that drops the last, partial group of six bits.
toBase64_Truncating(bytes) ==
    LET bits == BitsOf(bytes)
        n == Len(bits) \div 6
    IN [i \in 1..n |-> BitsValue(bits, 6 * (i - 1) + 1, 6)]

\* Buffer.from(bytes).toString('base64')
toBase64(bytes) ==
    LET bits == BitsOf(bytes)
        n == (Len(bits) + 5) \div 6
        pad == (4 - (n % 4)) % 4
    IN [i \in 1..n |-> BitsValue(bits, 6 * (i - 1) + 1, 6)] \o [i \in 1..pad |-> 64]

\* new Uint8Array(Buffer.from(base64, 'base64'))
fromBase64(base64) ==
    LET digits == SelectSeq(base64, LAMBDA c : c < 64)
        bits == Flatten([i \in 1..Len(digits) |->
                            [j \in 1..6 |-> (digits[i] \div (2 ^ (6 - j))) % 2]])
        n == Len(bits) \div 8
    IN [i \in 1..n |-> BitsValue(bits, 8 * (i - 1) + 1, 8)]

(***************************************************************************)
(* @noble/ed25519, as an ideal signature scheme: a private key is the      *)
(* number of its key pair, the signature of a message under a key is a     *)
(* byte string determined by exactly that key and those bytes, and it      *)
(* verifies under the public key of that pair and for those bytes only.    *)
(***************************************************************************)
Keys == 1..NumKeys
edGetPublicKey(privateKey) == [pub |-> privateKey]
edSign(messageBytes, privateKey) == <<privateKey>> \o messageBytes
edVerify(sigBytes, messageBytes, publicKey) ==
    /\ sigBytes # <<>>
    /\ Head(sigBytes) \in Keys
    /\ publicKey = edGetPublicKey(Head(sigBytes))
    /\ Tail(sigBytes) = messageBytes

\* generateKeyPair(): the pair of a fresh private key
generateKeyPair(k) == [privateKey |-> k, publicKey |-> edGetPublicKey(k)]

sign(message, privateKey) == toBase64(edSign(MessageBytes(message), privateKey))

\* verify never throws: ed.verifyAsync rejects a malformed signature and the
\* catch turns that into false.
verify(message, signatureBase64, publicKey) ==
    edVerify(fromBase64(signatureBase64), MessageBytes(message), publicKey)

\* The code units the modelled strings are made of: 'A', an unpaired high
\* surrogate, a low surrogate, and U+FFFD.
CodeUnits == {65, 55357, 56832, 65533}

RECURSIVE SeqsUpTo(_, _)
SeqsUpTo(S, n) ==
    IF n = 0 THEN {<<>>}
    ELSE LET shorter == SeqsUpTo(S, n - 1)
         IN shorter \cup {Append(s, x) : s \in shorter, x \in S}

Messages ==
    {StringMsg(u) : u \in SeqsUpTo(CodeUnits, MaxMsgLen)}
        \cup {BytesMsg(b) : b \in {<<>>, <<65>>, <<239, 191, 189>>}}

(***************************************************************************)
(* crypto/signing.ts: canonicalize and the signable payloads.               *)
(*                                                                         *)
(* A JavaScript value is a record [t, a, kids]: t its type, a the text of  *)
(* a string or number, kids the properties of an object (in insertion      *)
(* order, as Object.keys and JSON.stringify enumerate them) or the         *)
(* elements of an array (with k = "").  A JSON text is the sequence of its *)
(* tokens.                                                                 *)
(***************************************************************************)
JStr(s) == [t |-> "str", a |-> s, kids |-> <<>>]
JNum(s) == [t |-> "num", a |-> s, kids |-> <<>>]
JNull == [t |-> "null", a |-> "", kids |-> <<>>]
JUndef == [t |-> "undef", a |-> "", kids |-> <<>>]
JArr(items) == [t |-> "arr", a |-> "",
                kids |-> [i \in 1..Len(items) |-> [k |-> "", v |-> items[i]]]]
JObj(props) == [t |-> "obj", a |-> "", kids |-> props]
Prop(key, value) == [k |-> key, v |-> value]

\* Object.keys(obj)
ObjectKeys(obj) == [i \in 1..Len(obj.kids) |-> obj.kids[i].k]

\* obj[key]: undefined when obj has no such property
GetProp(obj, key) ==
    IF \E i \in 1..Len(obj.kids) : obj.kids[i].k = key
    THEN obj.kids[CHOOSE i \in 1..Len(obj.kids) : obj.kids[i].k = key].v
    ELSE JUndef

\* ToBoolean(v), as || tests it
Truthy(v) ==
    CASE v.t = "str" -> v.a # ""
      [] v.t = "num" -> v.a # "0"
      [] v.t \in {"null", "undef"} -> FALSE
      [] OTHER -> TRUE

\* v || d
OrElse(v, d) == IF Truthy(v) THEN v ELSE d

\* v ?? d
Coalesce(v, d) == IF v.t \in {"null", "undef"} THEN d ELSE v

\* The property names of the model in the order of Array.prototype.sort()
\* without a comparator (by UTF-16 code units).
SortedNames ==
    <<"author", "by", "confidence", "content", "creator", "domain", "entity",
      "evidence_type", "from", "language", "project", "server_port",
      "source_transform", "tags", "to", "transform", "type", "uuid", "when">>

NameRank(name) == CHOOSE i \in 1..Len(SortedNames) : SortedNames[i] = name

\* keys.sort()
RECURSIVE SortKeys(_)
SortKeys(keys) ==
    IF keys = <<>> THEN <<>>
    ELSE LET rest == SortKeys(Tail(keys))
             x == Head(keys)
             before == SelectSeq(rest, LAMBDA y : NameRank(y) <= NameRank(x))
             after == SelectSeq(rest, LAMBDA y : NameRank(y) > NameRank(x))
         IN before \o <<x>> \o after

\* JSON.stringify(value): a property whose value is undefined is left out,
\* an undefined array element is written null; the properties of an object,
\* nested ones too, are written in their insertion order.
RECURSIVE JSONstringify(_)
JSONstringify(v) ==
    LET member(i) ==
            IF v.t = "obj"
            THEN IF v.kids[i].v.t = "undef" THEN <<>>
                 ELSE <<<<"\"", v.kids[i].k, "\"", ":">> \o JSONstringify(v.kids[i].v)>>
            ELSE IF v.kids[i].v.t = "undef" THEN <<<<"null">>>>
                 ELSE <<JSONstringify(v.kids[i].v)>>
        members == Flatten([i \in 1..Len(v.kids) |-> member(i)])
        joined == Flatten([i \in 1..Len(members) |->
                              IF i = 1 THEN members[i] ELSE <<",">> \o members[i]])
    IN CASE v.t = "str" -> <<"\"", v.a, "\"">>
         [] v.t = "num" -> <<v.a>>
         [] v.t = "null" -> <<"null">>
         [] v.t = "arr" -> <<"[">> \o joined \o <<"]">>
         [] v.t = "obj" -> <<"{">> \o joined \o <<"}">>
         [] OTHER -> <<>>

\* canonicalize(obj): the top-level keys sorted, then JSON.stringify
canonicalize(obj) ==
    LET sortedKeys == SortKeys(ObjectKeys(obj))
        sorted == JObj([i \in 1..Len(sortedKeys) |->
                           Prop(sortedKeys[i], GetProp(obj, sortedKeys[i]))])
    IN JSONstringify(sorted)

\* A payload builder that serialises the object it is given as it is.
getFragmentSignablePayload_Raw(fragment) == JSONstringify(fragment)

getFragmentSignablePayload(fragment) ==
    canonicalize(JObj(<<
        Prop("uuid", GetProp(fragment, "uuid")),
        Prop("content", GetProp(fragment, "content")),
        Prop("creator", GetProp(fragment, "creator")),
        Prop("when", GetProp(fragment, "when")),
        Prop("tags", OrElse(GetProp(fragment, "tags"), JArr(<<>>))),
        Prop("transform", OrElse(GetProp(fragment, "transform"), JNull)),
        Prop("confidence", Coalesce(GetProp(fragment, "confidence"), JNum("0.5"))),
        Prop("evidence_type", OrElse(GetProp(fragment, "evidence_type"), JStr("unknown")))
    >>))

getRelationSignablePayload(relation) ==
    canonicalize(JObj(<<
        Prop("uuid", GetProp(relation, "uuid")),
        Prop("from", GetProp(relation, "from")),
        Prop("to", GetProp(relation, "to")),
        Prop("by", GetProp(relation, "by")),
        Prop("type", GetProp(relation, "type")),
        Prop("content", OrElse(GetProp(relation, "content"), JStr(""))),
        Prop("creator", GetProp(relation, "creator")),
        Prop("when", GetProp(relation, "when"))
    >>))

SignablePayload(kind, entity) ==
    IF kind = "fragment" THEN getFragmentSignablePayload(entity)
    ELSE getRelationSignablePayload(entity)

\* An Address object as the tools and the gateway's JSON build it.
JAddress(server_port, domain, entity) ==
    JObj(<<Prop("server_port", JStr(server_port)), Prop("domain", JStr(domain)),
           Prop("entity", JStr(entity))>>)

\* The entities the reorderings start from.
BaseFragments ==
    LET creator == JAddress("hub:1", "AGENT", "a1")
        required == <<Prop("uuid", JStr("f1")), Prop("content", JStr("text")),
                      Prop("creator", creator), Prop("when", JStr("t0"))>>
    IN { JObj(required),
         JObj(required \o <<Prop("tags", JArr(<<JAddress("", "TAG", "g1")>>)),
                            Prop("transform", JAddress("hub:1", "TRANSFORMATION", "x1")),
                            Prop("confidence", JNum("0.8")),
                            Prop("evidence_type", JStr("empirical"))>>),
         JObj(required \o <<Prop("tags", JArr(<<>>)), Prop("confidence", JNum("0"))>>),
         \* the object of test/crypto.test.ts
         JObj(<<Prop("uuid", JStr("test-uuid")), Prop("content", JStr("Test content")),
                Prop("language", JStr("en")), Prop("author", JStr("author-uuid")),
                Prop("project", JNull), Prop("source_transform", JNull)>>) }

BaseRelations ==
    LET required == <<Prop("uuid", JStr("r1")),
                      Prop("from", JAddress("hub:1", "FRAGMENT", "f1")),
                      Prop("to", JAddress("", "FRAGMENT", "f2")),
                      Prop("by", JAddress("hub:1", "AGENT", "a1")),
                      Prop("type", JStr("SUPPORTS")),
                      Prop("creator", JAddress("hub:1", "AGENT", "a1")),
                      Prop("when", JStr("t0"))>>
    IN { JObj(required),
         JObj(required \o <<Prop("content", JStr("why")), Prop("confidence", JNum("0.9"))>>) }

(***************************************************************************)
(* server.ts: AddressCache.  The Map is the sequence of its entries        *)
(* [k, v] in insertion order, which is the order Map.keys() iterates in.   *)
(***************************************************************************)
Address(server_port, domain, entity) ==
    [server_port |-> server_port, domain |-> domain, entity |-> entity]
NoAddress == Address("", "", "")

\* An optional string argument that was not passed.
Undefined == "<undefined>"

\* createLocalAddress(domain, entity)
createLocalAddress(domain, entity) == Address("", domain, entity)

\* createHubAddress(hubHost, domain, entity)
createHubAddress(hubHost, domain, entity) == Address(hubHost, domain, entity)

MapKeys(m) == {m[i].k : i \in 1..Len(m)}
MapHas(m, key) == key \in MapKeys(m)
MapGet(m, key) == m[CHOOSE i \in 1..Len(m) : m[i].k = key].v
MapDelete(m, key) == SelectSeq(m, LAMBDA e : e.k # key)
\* Map.set: a present key keeps its place, a new key goes last
MapSet(m, key, value) ==
    IF MapHas(m, key)
    THEN [i \in 1..Len(m) |-> IF m[i].k = key THEN [k |-> key, v |-> value] ELSE m[i]]
    ELSE Append(m, [k |-> key, v |-> value])

\* AddressCache.put(uuid, addr): the Map afterwards
AddressCachePut(m, max, uuid, addr) ==
    LET deleted == IF MapHas(m, uuid) THEN MapDelete(m, uuid) ELSE m
        set == MapSet(deleted, uuid, addr)
    IN IF Len(set) > max
       THEN LET firstKey == set[1].k
            IN IF firstKey # "" THEN MapDelete(set, firstKey) ELSE set
       ELSE set

\* A get that leaves the insertion order as it is.
AddressCacheGetMap_NoRefresh(m, uuid) == m

\* AddressCache.get(uuid, ...): the Map afterwards
AddressCacheGetMap(m, uuid) ==
    IF MapHas(m, uuid)
    THEN MapSet(MapDelete(m, uuid), uuid, MapGet(m, uuid))
    ELSE m

\* A get that prefers the configured hub to the cached address.
AddressCacheGet_HubFirst(m, uuid, domain, hubHost) ==
    IF hubHost \notin {Undefined, ""} THEN createHubAddress(hubHost, domain, uuid)
    ELSE IF MapHas(m, uuid) THEN MapGet(m, uuid)
    ELSE createLocalAddress(domain, uuid)

\* AddressCache.get(uuid, domain, hubHost): the value returned
AddressCacheGet(m, uuid, domain, hubHost) ==
    IF MapHas(m, uuid) THEN MapGet(m, uuid)
    ELSE IF hubHost \notin {Undefined, ""} THEN createHubAddress(hubHost, domain, uuid)
    ELSE createLocalAddress(domain, uuid)

CacheKeys == {"", "u1", "u2", "u3"}
PutAddresses(uuid) == {Address("hub:1", "FRAGMENT", uuid), Address("", "FRAGMENT", uuid)}
GetDomains == {"FRAGMENT", "AGENT"}
HubHosts == {Undefined, "", "hub:2"}

CacheOp(op, key, domain, hubHost, addr, result, has) ==
    [op |-> op, key |-> key, domain |-> domain, hubHost |-> hubHost, addr |-> addr,
     result |-> result, has |-> has]

(***************************************************************************)
(* gateway/types.ts: addressToString and parseAddress.  Here a string is   *)
(* the sequence of its characters, and the fields of an Address are such   *)
(* strings.                                                                *)
(***************************************************************************)
AddressDomains ==
    { <<"A", "G", "E", "N", "T">>, <<"T", "A", "G">>,
      <<"F", "R", "A", "G", "M", "E", "N", "T">>,
      <<"R", "E", "L", "A", "T", "I", "O", "N">>,
      <<"T", "R", "A", "N", "S", "F", "O", "R", "M", "A", "T", "I", "O", "N">>,
      <<"H", "U", "B">> }

\* s.split('/')
RECURSIVE Split(_)
Split(s) ==
    IF \E i \in 1..Len(s) : s[i] = "/"
    THEN LET at == CHOOSE i \in 1..Len(s) :
                        s[i] = "/" /\ \A j \in 1..(i - 1) : s[j] # "/"
         IN <<SubSeq(s, 1, at - 1)>> \o Split(SubSeq(s, at + 1, Len(s)))
    ELSE <<s>>

\* An addressToString that writes a local address without the leading '/'.
addressToString_NoLeadingSlash(addr) ==
    IF addr.server_port = <<>> /\ addr.domain = <<>> /\ addr.entity = <<>> THEN <<>>
    ELSE IF addr.server_port = <<>> THEN addr.domain \o <<"/">> \o addr.entity
    ELSE addr.server_port \o <<"/">> \o addr.domain \o <<"/">> \o addr.entity

addressToString(addr) ==
    IF addr.server_port = <<>> /\ addr.domain = <<>> /\ addr.entity = <<>> THEN <<>>
    ELSE IF addr.server_port = <<>> THEN <<"/">> \o addr.domain \o <<"/">> \o addr.entity
    ELSE addr.server_port \o <<"/">> \o addr.domain \o <<"/">> \o addr.entity

Parsed(status, server_port, domain, entity) ==
    [status |-> status, addr |-> Address(server_port, domain, entity)]

\* parseAddress(s); status "throws" stands for the Error it throws
parseAddress(s) ==
    IF s = <<>> THEN Parsed("ok", <<>>, <<"A", "G", "E", "N", "T">>, <<>>)
    ELSE LET parts == Split(s) IN
        IF Head(s) = "/" /\ Len(parts) = 3
        THEN Parsed("ok", <<>>, parts[2], parts[3])
        ELSE IF Len(parts) = 3
        THEN Parsed("ok", parts[1], parts[2], parts[3])
        ELSE Parsed("throws", <<>>, <<>>, <<>>)

\* The Address values serialised: well-formed ones, and ones with a '/' in
\* a field or an empty field.
ServerPorts == {<<>>, <<"h", ":", "1">>, <<"a", "/", "b">>}
Entities == {<<"u", "1">>, <<"u", "2">>, <<>>, <<"x", "/", "y">>}
AddressInputs ==
    {Address(sp, d, e) : sp \in ServerPorts, d \in AddressDomains \cup {<<>>},
                         e \in Entities}

NoSlash(s) == \A i \in 1..Len(s) : s[i] # "/"

\* server_port empty or a host:port without '/', domain one of the six
\* AddressDomain values, entity a UUID.
WellFormed(addr) ==
    /\ NoSlash(addr.server_port)
    /\ addr.domain \in AddressDomains
    /\ addr.entity # <<>> /\ NoSlash(addr.entity)

(***************************************************************************)
(* The gateway, as the tools see it through GatewayClient: the relations   *)
(* it lists and the fragments whose GET fails.  A relation carries the     *)
(* fields the validity tools read; a confidence is a number of             *)
(* thousandths (800 is 0.8).                                               *)
(***************************************************************************)
Relation(from, to, type, hasConfidence, confidence) ==
    [from |-> Address("", "FRAGMENT", from), to |-> Address("", "FRAGMENT", to),
     type |-> type, hasConfidence |-> hasConfidence, confidence |-> confidence]

\* GatewayClient.listRelations(limit).items: the first page of the listing
listRelations(stored, limit) == SubSeq(stored, 1, Min(limit, Len(stored)))

\* GatewayClient.getFragment(uuid) throws
getFragmentFails(failing, uuid) == uuid \in failing

(***************************************************************************)
(* tools/validity.ts: wisdom_get_evidence_balance.                         *)
(***************************************************************************)
DefaultConfidence == 1000       \* relation.confidence ?? 1.0
VerdictThreshold == 500         \* net_score > 0.5, net_score < -0.5
EvidenceListLimit == 100        \* listRelations(100)

EmptyBalance(thesisId) ==
    [thesis_id |-> thesisId, supporting |-> <<>>, contradicting |-> <<>>,
     support_score |-> 0, contradict_score |-> 0, net_score |-> 0]

\* One iteration of the loop of calculateEvidenceBalance: the balance after
\* `relation`, from the balance before it.
BalanceStep(thesisId, balance, relation) ==
    LET confidence == IF relation.hasConfidence THEN relation.confidence
                      ELSE DefaultConfidence
        entry == [fragment_id |-> relation.from.entity, confidence |-> confidence]
    IN IF relation.to.entity = thesisId
       THEN IF relation.type = "SUPPORTS"
            THEN [balance EXCEPT !.supporting = Append(@, entry),
                                 !.support_score = @ + confidence]
            ELSE IF relation.type = "CONTRADICTS"
            THEN [balance EXCEPT !.contradicting = Append(@, entry),
                                 !.contradict_score = @ + confidence]
            ELSE balance
       ELSE balance

\* What the iterations over relations[lo..hi] add to a balance.  The
\* iterations only append and add, so the range is evaluated in two halves
\* (a page of 100 relations is then 7 levels deep instead of 100).
RECURSIVE BalanceRange(_, _, _, _)
BalanceRange(thesisId, relations, lo, hi) ==
    IF lo > hi THEN EmptyBalance(thesisId)
    ELSE IF lo = hi THEN BalanceStep(thesisId, EmptyBalance(thesisId), relations[lo])
    ELSE LET mid == (lo + hi) \div 2
             first == BalanceRange(thesisId, relations, lo, mid)
             rest == BalanceRange(thesisId, relations, mid + 1, hi)
         IN [first EXCEPT !.supporting = @ \o rest.supporting,
                          !.contradicting = @ \o rest.contradicting,
                          !.support_score = @ + rest.support_score,
                          !.contradict_score = @ + rest.contradict_score]

\* The loop of calculateEvidenceBalance over relations[1..n].
BalanceLoop(thesisId, relations, n) == BalanceRange(thesisId, relations, 1, n)

calculateEvidenceBalance(thesisId, relations) ==
    LET balance == BalanceLoop(thesisId, relations, Len(relations))
    IN [balance EXCEPT !.net_score = balance.support_score - balance.contradict_score]

\* Math.round(x * 100) / 100
Round2(x) == ((x + 5) \div 10) * 10

\* A verdict that counts the boundary as well supported / contested.
Verdict_Inclusive(net_score) ==
    IF net_score >= VerdictThreshold THEN "well_supported"
    ELSE IF net_score <= -VerdictThreshold THEN "contested"
    ELSE "neutral"

Verdict(net_score) ==
    IF net_score > VerdictThreshold THEN "well_supported"
    ELSE IF net_score < -VerdictThreshold THEN "contested"
    ELSE "neutral"

EvResult(status, fragmentId, relationsData, balance, verdict) ==
    [status |-> status, fragment_id |-> fragmentId, relationsData |-> relationsData,
     balance |-> balance,
     supporting |-> balance.supporting, contradicting |-> balance.contradicting,
     support_score |-> Round2(balance.support_score),
     contradict_score |-> Round2(balance.contradict_score),
     net_score |-> Round2(balance.net_score),
     verdict |-> verdict]

EvNone == EvResult("none", "", <<>>, EmptyBalance(""), "")

\* The handler of wisdom_get_evidence_balance; listOk: the listing request
\* succeeds.
GetEvidenceBalanceHandler(fragmentId, stored, failing, listOk) ==
    IF getFragmentFails(failing, fragmentId) \/ ~listOk
    THEN EvResult("error", fragmentId, <<>>, EmptyBalance(""), "")
    ELSE LET relationsData == listRelations(stored, EvidenceListLimit)
             balance == calculateEvidenceBalance(fragmentId, relationsData)
         IN EvResult("ok", fragmentId, relationsData, balance, Verdict(balance.net_score))

EvFragments == {"F", "H"}
\* the relations a full page of the gateway's listing is made of
EvPageRelations == {Relation("G", "H", "SUPPORTS", TRUE, 300)}
EvConfidences == {300, 504, 800}
EvRelations ==
    {Relation("G", to, type, TRUE, c) :
        to \in EvFragments, type \in {"SUPPORTS", "CONTRADICTS", "DERIVED_FROM"},
        c \in EvConfidences}
    \cup {Relation("G", to, type, FALSE, 0) :
        to \in EvFragments, type \in {"SUPPORTS", "CONTRADICTS", "DERIVED_FROM"}}

(***************************************************************************)
(* tools/validity.ts: wisdom_check_derivation_chain.                       *)
(*                                                                         *)
(* The traversal state is [chain, visited, issues] as in the handler, and  *)
(* two histories: fetched, the getFragment calls made as <<fragment,       *)
(* source>>, and calls, the traverse calls made as <<fragment, depth>>.    *)
(***************************************************************************)
DefaultMaxDepth == 10           \* (args.max_depth as number) || 10
ChainListLimit == 500           \* listRelations(500)

\* args.max_depth: not given, or a number
NoMaxDepth == [given |-> FALSE, v |-> 0]
MaxDepth(n) == [given |-> TRUE, v |-> n]

\* (args.max_depth as number) || 10
EffectiveMaxDepth(arg) == IF arg.given /\ arg.v # 0 THEN arg.v ELSE DefaultMaxDepth

Issue(fragId, issueType) == [fragment_id |-> fragId, issue_type |-> issueType]

TraversalStart ==
    [chain |-> <<>>, visited |-> {}, issues |-> <<>>, fetched |-> <<>>, calls |-> <<>>]

\* relationsData.filter(from.entity === fragId && type === 'DERIVED_FROM')
\*              .map(r => r.to.entity)
DerivesFrom(relationsData, fragId) ==
    LET derivedFromRelations ==
            SelectSeq(relationsData,
                      LAMBDA r : r.from.entity = fragId /\ r.type = "DERIVED_FROM")
    IN [i \in 1..Len(derivedFromRelations) |-> derivedFromRelations[i].to.entity]

\* A source check that gives up at the first source that cannot be fetched.
RECURSIVE CheckSources_AbortOnFailure(_, _, _, _)
CheckSources_AbortOnFailure(st, fragId, sources, failing) ==
    IF sources = <<>> THEN st
    ELSE LET sourceId == Head(sources)
             tried == [st EXCEPT !.fetched = Append(@, <<fragId, sourceId>>)]
         IN IF getFragmentFails(failing, sourceId)
            THEN [tried EXCEPT !.issues = Append(@, Issue(fragId, "missing_reference"))]
            ELSE CheckSources_AbortOnFailure(tried, fragId, Tail(sources), failing)

\* "Check if sources exist": for (const sourceId of derivesFrom) try
\* getFragment, catch: push a missing_reference issue
RECURSIVE CheckSources(_, _, _, _)
CheckSources(st, fragId, sources, failing) ==
    IF sources = <<>> THEN st
    ELSE LET sourceId == Head(sources)
             tried == [st EXCEPT !.fetched = Append(@, <<fragId, sourceId>>)]
             checked == IF getFragmentFails(failing, sourceId)
                        THEN [tried EXCEPT
                                !.issues = Append(@, Issue(fragId, "missing_reference"))]
                        ELSE tried
         IN CheckSources(checked, fragId, Tail(sources), failing)

\* traverse(fragId, depth), and its loop "Traverse deeper"
RECURSIVE traverse(_, _, _, _, _, _)
RECURSIVE TraverseDeeper(_, _, _, _, _, _)
\* A traversal that the depth limit alone stops.
traverse_DepthOnly(st, fragId, depth, maxDepth, relationsData, failing) ==
    LET called == [st EXCEPT !.calls = Append(@, <<fragId, depth>>)]
    IN IF depth > maxDepth THEN called
       ELSE LET derivesFrom == DerivesFrom(relationsData, fragId)
                entered == [called EXCEPT
                              !.visited = @ \cup {fragId},
                              !.chain = Append(@, [fragment_id |-> fragId,
                                                   depth |-> depth,
                                                   derives_from |-> derivesFrom])]
                checked == CheckSources(entered, fragId, derivesFrom, failing)
            IN TraverseDeeper(checked, derivesFrom, depth, maxDepth, relationsData, failing)

traverse(st, fragId, depth, maxDepth, relationsData, failing) ==
    LET called == [st EXCEPT !.calls = Append(@, <<fragId, depth>>)]
    IN IF depth > maxDepth \/ fragId \in st.visited
       THEN IF fragId \in st.visited
            THEN [called EXCEPT
                    !.issues = Append(@, Issue(fragId, "circular_dependency"))]
            ELSE called
       ELSE LET derivesFrom == DerivesFrom(relationsData, fragId)
                entered == [called EXCEPT
                              !.visited = @ \cup {fragId},
                              !.chain = Append(@, [fragment_id |-> fragId,
                                                   depth |-> depth,
                                                   derives_from |-> derivesFrom])]
                checked == CheckSources(entered, fragId, derivesFrom, failing)
            IN TraverseDeeper(checked, derivesFrom, depth, maxDepth, relationsData, failing)

TraverseDeeper(st, sources, depth, maxDepth, relationsData, failing) ==
    IF sources = <<>> THEN st
    ELSE TraverseDeeper(
            traverse(st, Head(sources), depth + 1, maxDepth, relationsData, failing),
            Tail(sources), depth, maxDepth, relationsData, failing)

\* A validity that only a missing reference breaks.
Validity_MissingOnly(issues) ==
    IF \E i \in 1..Len(issues) : issues[i].issue_type = "missing_reference"
    THEN "broken" ELSE "valid"

\* "Determine overall validity"
Validity(issues) ==
    IF \E i \in 1..Len(issues) :
            issues[i].issue_type \in {"missing_reference", "circular_dependency"}
    THEN "broken" ELSE "valid"

ChainResult(status, fragmentId, arg, relationsData, failing, st) ==
    [status |-> status, fragment_id |-> fragmentId, max_depth |-> arg,
     relationsData |-> relationsData, failing |-> failing,
     validity |-> Validity(st.issues), chain_depth |-> Len(st.chain),
     derivation_chain |-> st.chain, issues |-> st.issues,
     fetched |-> st.fetched, calls |-> st.calls]

ChainNone == ChainResult("none", "", NoMaxDepth, <<>>, {}, TraversalStart)

\* The handler of wisdom_check_derivation_chain; listOk: the listing
\* request succeeds.
CheckDerivationChainHandler(fragmentId, arg, stored, failing, listOk) ==
    IF ~listOk THEN ChainResult("error", fragmentId, arg, <<>>, {}, TraversalStart)
    ELSE LET maxDepth == EffectiveMaxDepth(arg)
             relationsData == listRelations(stored, ChainListLimit)
         IN ChainResult("ok", fragmentId, arg, relationsData, failing,
                traverse(TraversalStart, fragmentId, 0, maxDepth, relationsData, failing))

DerivedFrom(from, to) == Relation(from, to, "DERIVED_FROM", TRUE, 1000)

\* The relations the gateway may hold: the cycle A -> B -> C -> A, the
\* double derivation A -> B, A -> C, B -> D, C -> D, a self-loop, and a
\* relation of another type.
ChainRelations ==
    { DerivedFrom("A", "B"), DerivedFrom("B", "C"), DerivedFrom("C", "A"),
      DerivedFrom("A", "C"), DerivedFrom("B", "D"), DerivedFrom("C", "D"),
      DerivedFrom("A", "A"), Relation("A", "D", "SUPPORTS", TRUE, 800) }
ChainRoots == {"A", "C"}
ChainFailing == SUBSET {"B", "C"}
MaxDepthArgs == {NoMaxDepth} \cup {MaxDepth(n) : n \in -1..MaxDepthArg}

(***************************************************************************)
(* tools/validity.ts: wisdom_load_context_for_task.  A fragment of the     *)
(* search result carries the fields the handler reads: its content is      *)
(* given by its length, its confidence and trust score are numbers of      *)
(* thousandths and may be absent.                                          *)
(***************************************************************************)
DefaultTokenBudget == 10000         \* args.token_budget || 10000
DefaultMinConfidence == 300         \* args.min_confidence || 0.3
DefaultFragmentConfidence == 500    \* f.confidence ?? 0.5
DefaultTrustScore == 0              \* f.trust_summary?.score ?? 0
SearchLimit == 50                   \* limit: 50
charsPerToken == 4
MetadataOverhead == 100             \* fragment.content.length + 100

SearchFragment(uuid, contentLength, hasConfidence, confidence, hasTrust, trust) ==
    [uuid |-> uuid, content_length |-> contentLength,
     hasConfidence |-> hasConfidence, confidence |-> confidence,
     hasTrust |-> hasTrust, trust |-> trust]

\* GatewayClient.searchFragments({query, project, limit}).items
searchFragments(indexed, limit) == SubSeq(indexed, 1, Min(limit, Len(indexed)))

\* a numeric tool argument: not given, or a number
NoNumber == [given |-> FALSE, v |-> 0]
Number(n) == [given |-> TRUE, v |-> n]

\* (args.x as number) || dflt
NumberOr(arg, dflt) == IF arg.given /\ arg.v # 0 THEN arg.v ELSE dflt

\* f.confidence ?? 0.5
ConfidenceOf(f) == IF f.hasConfidence THEN f.confidence ELSE DefaultFragmentConfidence

\* f.trust_summary?.score ?? 0
TrustOf(f) == IF f.hasTrust THEN f.trust ELSE DefaultTrustScore

\* ((f.trust_summary?.score ?? 0) + 1) / 2 * (f.confidence ?? 0.5)
relevance_score(f) == (((TrustOf(f) + 1000) \div 2) * ConfidenceOf(f)) \div 1000

\* .filter((f) => (f.confidence ?? 0.5) >= minConfidence)
FilterByConfidence(searchData, minConfidence) ==
    LET Keep(f) == ConfidenceOf(f) >= minConfidence
    IN SelectSeq(searchData, Keep)

\* Array.prototype.sort with (a, b) => b.relevance_score - a.relevance_score:
\* the sort is stable, so an element goes behind every element that does not
\* compare after it.
RECURSIVE InsertByRelevance(_, _)
InsertByRelevance(sorted, f) ==
    IF sorted = <<>> THEN <<f>>
    ELSE IF relevance_score(f) - relevance_score(Head(sorted)) > 0
    THEN <<f>> \o sorted
    ELSE <<Head(sorted)>> \o InsertByRelevance(Tail(sorted), f)

RECURSIVE SortByRelevance(_, _)
SortByRelevance(fragments, n) ==
    IF n = 0 THEN <<>>
    ELSE InsertByRelevance(SortByRelevance(fragments, n - 1), fragments[n])

\* A budget loop that passes over a fragment that does not fit and goes on.
RECURSIVE FitWithinBudget_Continue(_, _, _, _)
FitWithinBudget_Continue(filteredFragments, i, st, tokenBudget) ==
    IF i > Len(filteredFragments) THEN st
    ELSE LET fragChars == filteredFragments[i].content_length + MetadataOverhead
         IN IF st.totalChars + fragChars > tokenBudget * charsPerToken
            THEN FitWithinBudget_Continue(filteredFragments, i + 1, st, tokenBudget)
            ELSE FitWithinBudget_Continue(filteredFragments, i + 1,
                    [totalChars |-> st.totalChars + fragChars,
                     selectedFragments |->
                        Append(st.selectedFragments, filteredFragments[i])],
                    tokenBudget)

\* "Fit within token budget": the for loop from filteredFragments[i] on, with
\* st = [totalChars, selectedFragments] so far.
RECURSIVE FitWithinBudget(_, _, _, _)
FitWithinBudget(filteredFragments, i, st, tokenBudget) ==
    IF i > Len(filteredFragments) THEN st
    ELSE LET fragChars == filteredFragments[i].content_length + MetadataOverhead
         IN IF st.totalChars + fragChars > tokenBudget * charsPerToken
            THEN st
            ELSE FitWithinBudget(filteredFragments, i + 1,
                    [totalChars |-> st.totalChars + fragChars,
                     selectedFragments |->
                        Append(st.selectedFragments, filteredFragments[i])],
                    tokenBudget)

\* selectedFragments.map(f => ({uuid, content, confidence, evidence_type,
\*                             trust_score, relevance_score}))
ReturnedFragment(f) ==
    [uuid |-> f.uuid, content_length |-> f.content_length,
     hasConfidence |-> f.hasConfidence, confidence |-> f.confidence,
     trust_score |-> TrustOf(f),
     relevance_score |-> Round2(relevance_score(f))]

\* The response, and with it what the call was given (token_budget_arg,
\* min_confidence_arg, searchData) and what it computed on the way
\* (filteredFragments, totalChars).
CtxResult(status, tokenBudgetArg, minConfidenceArg, searchData, filtered, tokenBudget, st) ==
    [status |-> status,
     token_budget_arg |-> tokenBudgetArg, min_confidence_arg |-> minConfidenceArg,
     searchData |-> searchData, filteredFragments |-> filtered,
     totalChars |-> st.totalChars,
     token_budget |-> tokenBudget,
     estimated_tokens |-> (st.totalChars + charsPerToken - 1) \div charsPerToken,
     fragments_found |-> Len(searchData),
     fragments_returned |-> Len(st.selectedFragments),
     fragments |-> [i \in 1..Len(st.selectedFragments) |->
                        ReturnedFragment(st.selectedFragments[i])]]

NothingSelected == [totalChars |-> 0, selectedFragments |-> <<>>]

CtxNone == CtxResult("none", NoNumber, NoNumber, <<>>, <<>>, 0, NothingSelected)

\* The handler of wisdom_load_context_for_task; searchOk: the search request
\* succeeds.
LoadContextForTaskHandler(tokenBudgetArg, minConfidenceArg, indexed, searchOk) ==
    LET tokenBudget == NumberOr(tokenBudgetArg, DefaultTokenBudget)
        minConfidence == NumberOr(minConfidenceArg, DefaultMinConfidence)
    IN IF ~searchOk
       THEN CtxResult("error", tokenBudgetArg, minConfidenceArg, <<>>, <<>>,
                      tokenBudget, NothingSelected)
       ELSE LET searchData == searchFragments(indexed, SearchLimit)
                kept == FilterByConfidence(searchData, minConfidence)
                filteredFragments == SortByRelevance(kept, Len(kept))
            IN CtxResult("ok", tokenBudgetArg, minConfidenceArg, searchData,
                         filteredFragments, tokenBudget,
                         FitWithinBudget(filteredFragments, 1, NothingSelected,
                                         tokenBudget))

\* The fragments a search may return: relevance 0.8, 0.4 and 0.4 (a tie),
\* 0.25 (no confidence, no trust summary), 0.1 (confidence 0.1), 0
\* (confidence 0.3, distrusted, as long as the default budget), 0
\* (confidence 0).
CtxFragments ==
    { SearchFragment("f1", 0, TRUE, 800, TRUE, 1000),
      SearchFragment("f2", 300, TRUE, 800, TRUE, 0),
      SearchFragment("f3", 0, TRUE, 400, TRUE, 1000),
      SearchFragment("f4", 100, FALSE, 0, FALSE, 0),
      SearchFragment("f5", 0, TRUE, 100, TRUE, 1000),
      SearchFragment("f6", 39900, TRUE, 300, TRUE, -1000),
      SearchFragment("f7", 100, TRUE, 0, TRUE, 0) }
TokenBudgetArgs == {NoNumber, Number(0), Number(25), Number(75), Number(150)}
MinConfidenceArgs == {NoNumber, Number(0), Number(100), Number(300), Number(500),
                      Number(1000)}

(***************************************************************************)
(* transforms/presets.ts: PRESETS, TYPE_TO_PRESET and selectPreset.  An    *)
(* expected_compression and a context pressure are numbers of hundredths   *)
(* (70 is 0.7).                                                            *)
(***************************************************************************)
PRESETS ==
    [k \in {"t1-symbolic", "t3-compact", "t4-hybrid", "baseline"} |->
        CASE k = "t1-symbolic" -> [name |-> "wisdom-t1-symbolic", expected_compression |-> 39]
          [] k = "t3-compact"  -> [name |-> "wisdom-t3-compact", expected_compression |-> 56]
          [] k = "t4-hybrid"   -> [name |-> "wisdom-t4-hybrid", expected_compression |-> 24]
          [] k = "baseline"    -> [name |-> "wisdom-baseline", expected_compression |-> 0]]

TYPE_TO_PRESET ==
    [t \in {"DEFINITION", "PROCEDURE", "FACT", "OBSERVATION", "HYPOTHESIS", "SYNTHESIS",
            "INSIGHT", "OPINION", "QUESTION", "ANSWER", "EXAMPLE", "ANTITHESIS"} |->
        CASE t \in {"DEFINITION", "PROCEDURE"} -> "t1-symbolic"
          [] t \in {"FACT", "OBSERVATION"} -> "t3-compact"
          [] t \in {"HYPOTHESIS", "SYNTHESIS", "INSIGHT", "OPINION", "ANTITHESIS"}
                -> "t4-hybrid"
          [] t \in {"QUESTION", "ANSWER", "EXAMPLE"} -> "baseline"]

\* TYPE_TO_PRESET[fragmentType] || fallback
TypePresetOr(fragmentType, fallback) ==
    IF fragmentType \in DOMAIN TYPE_TO_PRESET THEN TYPE_TO_PRESET[fragmentType]
    ELSE fallback

DefaultContextPressure == 0     \* contextPressure: number = 0
HighPressure == 70              \* contextPressure > 0.7
LowPressure == 30               \* contextPressure < 0.3

\* A selectPreset whose high-pressure branch starts at 0.7 itself.
selectPreset_Inclusive(fragmentType, contextPressure) ==
    LET pressure == IF contextPressure.given THEN contextPressure.v
                    ELSE DefaultContextPressure
    IN IF pressure >= HighPressure
       THEN IF fragmentType \in {"HYPOTHESIS", "SYNTHESIS", "INSIGHT"}
            THEN "t1-symbolic"
            ELSE "t3-compact"
       ELSE IF pressure < LowPressure
       THEN TypePresetOr(fragmentType, "t4-hybrid")
       ELSE TypePresetOr(fragmentType, "t1-symbolic")

selectPreset(fragmentType, contextPressure) ==
    LET pressure == IF contextPressure.given THEN contextPressure.v
                    ELSE DefaultContextPressure
    IN IF pressure > HighPressure
       THEN IF fragmentType \in {"HYPOTHESIS", "SYNTHESIS", "INSIGHT"}
            THEN "t1-symbolic"
            ELSE "t3-compact"
       ELSE IF pressure < LowPressure
       THEN TypePresetOr(fragmentType, "t4-hybrid")
       ELSE TypePresetOr(fragmentType, "t1-symbolic")

PresetCall(fragmentType, contextPressure, result) ==
    [fragmentType |-> fragmentType, contextPressure |-> contextPressure,
     result |-> result]

PresetNone == PresetCall("", NoNumber, "")

\* The types selectPreset is called with: the keys of TYPE_TO_PRESET, and
\* names it has no entry for.
FragmentTypeNames == DOMAIN TYPE_TO_PRESET \cup {"THESIS", "hypothesis"}
ContextPressures ==
    {NoNumber} \cup {Number(p) : p \in {0, 29, 30, 31, 69, 70, 71, 100}}

(***************************************************************************)
(* server.ts: the tool-call dispatcher; crypto/keys.ts: KeyManager;        *)
(* gateway/client.ts: the hub status; and the handlers of the tools that   *)
(* sign an entity.  A message is the sequence of its words, a response     *)
(* text the sequence of its parts.  A configured private key is a          *)
(* non-empty string, which also stands for the bytes it decodes to.        *)
(***************************************************************************)
Config(privateKey, agentUuid) == [private_key |-> privateKey, agent_uuid |-> agentUuid]

NullKey == "<null>"

\* KeyManager.setConfig(config)
KeyManagerSetConfig(config_) ==
    [privateKey |-> IF config_.private_key # "" THEN config_.private_key ELSE NullKey]

NoPrivateKeyMessage ==
    <<"No private key configured.", "Run", "wisdom_generate_keypair", "first.">>
NoAgentMessage == <<"No agent configured.", "Run", "wisdom_generate_keypair", "first.">>
SourceTransformRequiredMessage ==
    <<"source_transform is required.",
      "Every fragment must reference a transform that produced it.",
      "Create a transform first with", "wisdom_create_transform.">>
TagNotFoundMessage == <<"Tag not found:", "<tag>">>
TypeTagNotFoundMessage == <<"Type tag", "<typeName>", "not found.">>
NotATypeTagMessage == <<"Tag", "<typeName>", "exists but is not a TYPE tag">>
GatewayErrorMessage == <<"Gateway error:", "<status>">>
FetchFailedMessage == <<"fetch failed">>

\* The headers of a gateway response: X-Hub-Status and X-Hub-Hint, "" when
\* the header is absent.
HubHeaders(status, hint) == [status |-> status, hint |-> hint]

HubStatus(level, hint) == [null |-> FALSE, level |-> level, hint |-> hint]
NullHubStatus == [null |-> TRUE, level |-> "", hint |-> ""]

\* No gateway response has been received yet.
NoHeaders == [status |-> "<none>", hint |-> ""]

\* GatewayClient.updateHubStatusFromResponse(response): the new lastHubStatus
updateHubStatusFromResponse(headers) ==
    IF headers.status = "" THEN NullHubStatus
    ELSE HubStatus(headers.status, headers.hint)

\* GatewayClient.getHubWarningMessages()
getHubWarningMessages(lastHubStatus_) ==
    IF lastHubStatus_.null \/ lastHubStatus_.level = "normal" THEN <<>>
    ELSE (IF lastHubStatus_.hint # "" THEN <<lastHubStatus_.hint>> ELSE <<>>)
         \o (IF lastHubStatus_.level = "critical"
             THEN <<"WARNING: Hub at critical capacity. Some operations may be restricted.">>
             ELSE IF lastHubStatus_.level = "warning"
             THEN <<"NOTICE: Hub resources are running low.">>
             ELSE <<>>)

\* One GatewayClient.request of a call: the client method, the transform
\* address entity of a fragment it carries (Undefined when the fragment has
\* none, NotAFragment for other bodies), and how the request ended: "ok",
\* "http_error" (a response that is not ok) or "network_error" (fetch threw).
NotAFragment == "<n/a>"
\* item is the index of the element of args.fragments the body was built
\* from (0: the request is not one of a batch).
Request(op, transform, outcome) ==
    [op |-> op, transform |-> transform, outcome |-> outcome, item |-> 0]

\* What the gateway does to the requests of one call: request number failAt
\* fails (0: none does) in the way failure says, and the tag looked up by
\* name has category tag ("null": there is no such tag).
GatewayEnv(failAt, failure, tag) == [failAt |-> failAt, failure |-> failure, tag |-> tag]

\* The outcome of request number n.
RequestOutcome(env, n) == IF env.failAt = n THEN env.failure ELSE "ok"

\* The message GatewayClient.request throws with for a failed request.
RequestErrorMessage(outcome) ==
    IF outcome = "http_error" THEN GatewayErrorMessage ELSE FetchFailedMessage

\* How a handler ends: it throws an Error with a message or returns a
\* result, having issued requests.
Thrown(message, requests) ==
    [threw |-> TRUE, message |-> message, result |-> <<>>, requests |-> requests]
Returned(result, requests) ==
    [threw |-> FALSE, message |-> <<>>, result |-> result, requests |-> requests]

\* The arguments of a call that the handlers branch on: source_transform
\* (Undefined when not given), the number of elements of fragments, and
\* whether tag has the form of a UUID.
ToolArgs(sourceTransform, fragments, tagIsUuid) ==
    [source_transform |-> sourceTransform, fragments |-> fragments,
     tag_is_uuid |-> tagIsUuid]

\* !sourceTransform
Falsy(s) == s \in {Undefined, ""}

\* A precondition that asks for the private key only.
SigningPrecondition_KeyOnly(keyManager_, config_) ==
    IF keyManager_.privateKey = NullKey THEN NoPrivateKeyMessage
    ELSE <<>>

\* The first statements of every signing handler: getPrivateKey() throws when
\* the KeyManager has no private key, then `if (!agentUuid) throw`.  The
\* message thrown, or <<>> when the handler goes on.
SigningPrecondition(keyManager_, config_) ==
    IF keyManager_.privateKey = NullKey THEN NoPrivateKeyMessage
    ELSE IF config_.agent_uuid = "" THEN NoAgentMessage
    ELSE <<>>

\* A handler that signs one entity and sends it with the client method op,
\* after the requests made so far.
SignAndSend(op, transform, result, requests, env) ==
    LET outcome == RequestOutcome(env, Len(requests) + 1)
        sent == Append(requests, Request(op, transform, outcome))
    IN IF outcome = "ok" THEN Returned(result, sent)
       ELSE Thrown(RequestErrorMessage(outcome), sent)

\* wisdom_create_fragment (tools/fragments.ts)
CreateFragmentHandler(args, config_, keyManager_, env) ==
    LET failed == SigningPrecondition(keyManager_, config_)
    IN IF failed # <<>> THEN Thrown(failed, <<>>)
       ELSE IF Falsy(args.source_transform)
       THEN Thrown(SourceTransformRequiredMessage, <<>>)
       ELSE SignAndSend("createFragment", args.source_transform, <<"fragment">>,
                        <<>>, env)

\* One iteration of the loop of wisdom_store_transformed_fragments: sign
\* fragments[i] and send it.
StoreOne(args, i, requests, env) ==
    LET transform == IF Falsy(args.source_transform) THEN Undefined
                     ELSE args.source_transform
        step == SignAndSend("createFragment", transform, <<>>, requests, env)
    IN [step EXCEPT !.requests[Len(step.requests)].item = i]

\* A loop that skips a fragment the gateway refused and reports the number
\* of fragments it stored.
RECURSIVE StoreLoop_SkipFailed(_, _, _, _)
StoreLoop_SkipFailed(args, i, requests, env) ==
    IF i > args.fragments
    THEN Returned(<<"stored", Len(SelectSeq(requests, LAMBDA r : r.outcome = "ok"))>>,
                  requests)
    ELSE StoreLoop_SkipFailed(args, i + 1, StoreOne(args, i, requests, env).requests, env)

\* The loop of wisdom_store_transformed_fragments from fragments[i] on:
\* results.length is the number of fragments, the await that throws ends
\* the handler.
RECURSIVE StoreLoop(_, _, _, _)
StoreLoop(args, i, requests, env) ==
    IF i > args.fragments THEN Returned(<<"stored", args.fragments>>, requests)
    ELSE LET step == StoreOne(args, i, requests, env)
         IN IF step.threw THEN step
            ELSE StoreLoop(args, i + 1, step.requests, env)

\* wisdom_store_transformed_fragments
StoreTransformedFragmentsHandler(args, config_, keyManager_, env) ==
    LET failed == SigningPrecondition(keyManager_, config_)
    IN IF failed # <<>> THEN Thrown(failed, <<>>)
       ELSE StoreLoop(args, 1, <<>>, env)

\* wisdom_create_transform, wisdom_create_tag, wisdom_create_relation,
\* wisdom_link_answer, wisdom_vote_on_fragment: precondition, sign, one POST.
SignOneHandler(op, result, config_, keyManager_, env) ==
    LET failed == SigningPrecondition(keyManager_, config_)
    IN IF failed # <<>> THEN Thrown(failed, <<>>)
       ELSE SignAndSend(op, NotAFragment, result, <<>>, env)

\* GatewayClient.getTagByName(name) as the first request of a call: the
\* listing request, and the tag's category or "null" (also when the listing
\* fails, which getTagByName catches).
getTagByName(env) ==
    LET outcome == RequestOutcome(env, 1)
    IN [requests |-> <<Request("listTags", NotAFragment, outcome)>>,
        tag |-> IF outcome = "ok" THEN env.tag ELSE "null"]

\* wisdom_tag_fragment (tools/tags.ts)
TagFragmentHandler(args, config_, keyManager_, env) ==
    LET failed == SigningPrecondition(keyManager_, config_)
    IN IF failed # <<>> THEN Thrown(failed, <<>>)
       ELSE IF args.tag_is_uuid
       THEN SignAndSend("createRelation", NotAFragment, <<"tagged">>, <<>>, env)
       ELSE LET found == getTagByName(env)
            IN IF found.tag = "null" THEN Thrown(TagNotFoundMessage, found.requests)
               ELSE SignAndSend("createRelation", NotAFragment, <<"tagged">>,
                                found.requests, env)

\* wisdom_type_fragment
TypeFragmentHandler(args, config_, keyManager_, env) ==
    LET failed == SigningPrecondition(keyManager_, config_)
    IN IF failed # <<>> THEN Thrown(failed, <<>>)
       ELSE LET found == getTagByName(env)
            IN IF found.tag = "null" THEN Thrown(TypeTagNotFoundMessage, found.requests)
               ELSE IF found.tag # "TYPE" THEN Thrown(NotATypeTagMessage, found.requests)
               ELSE SignAndSend("createRelation", NotAFragment, <<"typed">>,
                                found.requests, env)

\* wisdom_get_fragment (tools/fragments.ts): a handler that signs nothing
GetFragmentHandler(env) ==
    SignAndSend("getFragment", NotAFragment, <<"fragment">>, <<>>, env)

\* The tools that sign an entity, and toolMap's keys as far as modelled.
SigningTools ==
    {"wisdom_create_fragment", "wisdom_store_transformed_fragments",
     "wisdom_create_transform", "wisdom_create_tag", "wisdom_tag_fragment",
     "wisdom_create_relation", "wisdom_type_fragment", "wisdom_link_answer",
     "wisdom_vote_on_fragment"}
toolMap == SigningTools \cup {"wisdom_get_fragment"}

\* definition.handler(args || {}, context)
Handler(name, args, config_, keyManager_, env) ==
    CASE name = "wisdom_create_fragment" ->
            CreateFragmentHandler(args, config_, keyManager_, env)
      [] name = "wisdom_store_transformed_fragments" ->
            StoreTransformedFragmentsHandler(args, config_, keyManager_, env)
      [] name = "wisdom_create_transform" ->
            SignOneHandler("createTransform", <<"transform">>, config_, keyManager_, env)
      [] name = "wisdom_create_tag" ->
            SignOneHandler("createTag", <<"tag">>, config_, keyManager_, env)
      [] name = "wisdom_tag_fragment" ->
            TagFragmentHandler(args, config_, keyManager_, env)
      [] name = "wisdom_create_relation" ->
            SignOneHandler("createRelation", <<"relation">>, config_, keyManager_, env)
      [] name = "wisdom_type_fragment" ->
            TypeFragmentHandler(args, config_, keyManager_, env)
      [] name = "wisdom_link_answer" ->
            SignOneHandler("createRelation", <<"linked">>, config_, keyManager_, env)
      [] name = "wisdom_vote_on_fragment" ->
            SignOneHandler("createTrustVote", <<"vote">>, config_, keyManager_, env)
      [] name = "wisdom_get_fragment" -> GetFragmentHandler(env)

\* A client that reads the hub status of ok responses only.
RECURSIVE HubStatusAfter_OkOnly(_, _, _, _)
HubStatusAfter_OkOnly(lastHubStatus_, requests, n, headers) ==
    IF n = 0 THEN lastHubStatus_
    ELSE IF requests[n].outcome # "ok"
    THEN HubStatusAfter_OkOnly(lastHubStatus_, requests, n - 1, headers)
    ELSE updateHubStatusFromResponse(headers)

\* lastHubStatus after the requests of a call: every request that got a
\* response, ok or not, stores the status its headers give.
RECURSIVE HubStatusAfter(_, _, _, _)
HubStatusAfter(lastHubStatus_, requests, n, headers) ==
    IF n = 0 THEN lastHubStatus_
    ELSE IF requests[n].outcome = "network_error"
    THEN HubStatusAfter(lastHubStatus_, requests, n - 1, headers)
    ELSE updateHubStatusFromResponse(headers)

\* The hub warnings as a further text block, if there are any.
WarningBlock(hubWarnings) ==
    IF Len(hubWarnings) > 0 THEN <<<<"---">> \o hubWarnings>> ELSE <<>>

\* The response of a tool call, and with it the call it answers; isError
\* is meaningful when hasIsError.  ran, threw, message and result tell what
\* the handler did.
Response(status, name, args, hasIsError, isError, content, ran, out) ==
    [status |-> status, name |-> name, args |-> args,
     hasIsError |-> hasIsError, isError |-> isError, content |-> content,
     ran |-> ran, threw |-> out.threw, message |-> out.message, result |-> out.result]

NoResponse ==
    Response("none", "", ToolArgs(Undefined, 0, FALSE), FALSE, FALSE, <<>>, FALSE,
             Returned(<<>>, <<>>))

\* JSON.stringify(result, null, 2)
ResultText(result) == <<"JSON">> \o result

\* A dispatcher whose catch block returns the error text without isError.
CallToolRequestHandler_NoIsError(name, args, config_, keyManager_, hub_, env, headers) ==
    IF name \notin toolMap
    THEN [response |-> Response("returned", name, args, TRUE, TRUE,
                                <<<<"Unknown tool: ", name>>>>, FALSE,
                                Returned(<<>>, <<>>)),
          requests |-> <<>>, lastHubStatus |-> hub_]
    ELSE LET out == Handler(name, args, config_, keyManager_, env)
             hub == HubStatusAfter(hub_, out.requests, Len(out.requests),
                                   headers)
             hubWarnings == getHubWarningMessages(hub)
         IN [response |->
                IF out.threw
                THEN Response("returned", name, args, FALSE, FALSE,
                              <<<<"Error: ">> \o out.message>> \o WarningBlock(hubWarnings),
                              TRUE, out)
                ELSE Response("returned", name, args, FALSE, FALSE,
                              <<ResultText(out.result)>> \o WarningBlock(hubWarnings),
                              TRUE, out),
             requests |-> out.requests, lastHubStatus |-> hub]

\* server.setRequestHandler(CallToolRequestSchema, ...): the response, the
\* gateway requests made and the hub status left behind.
CallToolRequestHandler(name, args, config_, keyManager_, hub_, env, headers) ==
    IF name \notin toolMap
    THEN [response |-> Response("returned", name, args, TRUE, TRUE,
                                <<<<"Unknown tool: ", name>>>>, FALSE,
                                Returned(<<>>, <<>>)),
          requests |-> <<>>, lastHubStatus |-> hub_]
    ELSE LET out == Handler(name, args, config_, keyManager_, env)
             hub == HubStatusAfter(hub_, out.requests, Len(out.requests),
                                   headers)
             hubWarnings == getHubWarningMessages(hub)
         IN [response |->
                IF out.threw
                THEN Response("returned", name, args, TRUE, TRUE,
                              <<<<"Error: ">> \o out.message>> \o WarningBlock(hubWarnings),
                              TRUE, out)
                ELSE Response("returned", name, args, FALSE, FALSE,
                              <<ResultText(out.result)>> \o WarningBlock(hubWarnings),
                              TRUE, out),
             requests |-> out.requests, lastHubStatus |-> hub]

\* The configurations the server starts with: private key and agent UUID
\* each set or not.
Configs == {Config(k, a) : k \in {"", "key-1"}, a \in {"", "agent-1"}}
ToolNames == toolMap \cup {"wisdom_unknown", ""}
ToolArgSets ==
    {ToolArgs(s, n, u) : s \in {Undefined, "", "T1"}, n \in 0..MaxFragments,
                         u \in BOOLEAN}
GatewayEnvs ==
    {GatewayEnv(f, k, t) : f \in 0..MaxFragments, k \in {"http_error", "network_error"},
                           t \in {"null", "TYPE", "TOPIC"}}
HubHeaderSets ==
    {HubHeaders("", ""), HubHeaders("normal", ""), HubHeaders("warning", ""),
     HubHeaders("critical", "hint"), HubHeaders("degraded", "hint")}

(***************************************************************************)
(* The tools that create or fetch entities, and what they do with the      *)
(* address cache: tools/fragments.ts, tools/tags.ts, the relation tools    *)
(* and wisdom_create_transform.  The key and the agent are configured      *)
(* here; a tool's outcome is the UUIDs of the entities it returns, the     *)
(* references its signed request carries, and the cache afterwards.        *)
(***************************************************************************)
DefaultMaxSize == 5000      \* constructor(maxSize = 5000)
DefaultSearchLimit == 20    \* (args.limit as number) || 20

AgentUuid == "a1"

\* A Fragment of a gateway response: its uuid and its creator address.
GwFragment(uuid, server_port) ==
    [uuid |-> uuid, creator |-> Address(server_port, "AGENT", AgentUuid)]

\* cacheFragment(f, context): the cache afterwards.  The creator of a
\* Fragment is always present.
cacheFragment(m, max, f) ==
    IF f.uuid # ""
    THEN AddressCachePut(m, max, f.uuid, Address(f.creator.server_port, "FRAGMENT", f.uuid))
    ELSE m

\* items.forEach((f) => cacheFragment(f, context))
RECURSIVE cacheFragments(_, _, _)
cacheFragments(m, max, items) ==
    IF items = <<>> THEN m
    ELSE cacheFragments(cacheFragment(m, max, Head(items)), max, Tail(items))

\* A reference of a signed request: the field, the UUID referred to and the
\* address sent.
Ref(field, uuid, addr) == [field |-> field, uuid |-> uuid, addr |-> addr]

ToolOutcome(status, returned, refs, m) ==
    [status |-> status, returned |-> returned, refs |-> refs, cache |-> m]

\* context.addressCache.get for each of uuids (pairs <<uuid, domain>>) in
\* turn: the addresses returned, then the cache.
RECURSIVE CacheGets(_, _, _)
CacheGets(m, lookups, hubHost) ==
    IF lookups = <<>> THEN [addrs |-> <<>>, cache |-> m]
    ELSE LET uuid == Head(lookups)[1]
             rest == CacheGets(AddressCacheGetMap(m, uuid), Tail(lookups), hubHost)
         IN [addrs |-> <<AddressCacheGet(m, uuid, Head(lookups)[2], hubHost)>> \o rest.addrs,
             cache |-> rest.cache]

\* wisdom_create_fragment (tools/fragments.ts): creator and transform come
\* from the cache, the returned fragment is cached.
CreateFragmentTool(m, max, hubHost, sourceTransform, gatewayOk, fragment) ==
    LET got == CacheGets(m, << <<AgentUuid, "AGENT">>, <<sourceTransform, "TRANSFORMATION">> >>,
                         hubHost)
        refs == <<Ref("creator", AgentUuid, got.addrs[1]),
                  Ref("transform", sourceTransform, got.addrs[2])>>
    IN IF gatewayOk
       THEN ToolOutcome("ok", <<fragment.uuid>>, refs, cacheFragment(got.cache, max, fragment))
       ELSE ToolOutcome("error", <<>>, refs, got.cache)

\* wisdom_get_fragment (tools/fragments.ts)
GetFragmentTool(m, max, gatewayOk, fragment) ==
    IF gatewayOk
    THEN ToolOutcome("ok", <<fragment.uuid>>, <<>>, cacheFragment(m, max, fragment))
    ELSE ToolOutcome("error", <<>>, <<>>, m)

\* wisdom_search_fragments (tools/fragments.ts)
SearchFragmentsTool(m, max, gatewayOk, stored) ==
    LET items == searchFragments(stored, DefaultSearchLimit)
    IN IF gatewayOk
       THEN ToolOutcome("ok", [i \in 1..Len(items) |-> items[i].uuid], <<>>,
                        cacheFragments(m, max, items))
       ELSE ToolOutcome("error", <<>>, <<>>, m)

\* wisdom_create_tag (tools/tags.ts): the creator comes from the cache, the
\* returned tag is not cached.
CreateTagTool(m, hubHost, gatewayOk, tagUuid) ==
    LET got == CacheGets(m, << <<AgentUuid, "AGENT">> >>, hubHost)
        refs == <<Ref("creator", AgentUuid, got.addrs[1])>>
    IN IF gatewayOk THEN ToolOutcome("ok", <<tagUuid>>, refs, got.cache)
       ELSE ToolOutcome("error", <<>>, refs, got.cache)

\* wisdom_create_transform: the agent address is built from hub_host, the
\* cache is neither read nor written.
CreateTransformTool(m, hubHost, gatewayOk, transformUuid) ==
    LET agentAddr == IF hubHost \notin {Undefined, ""}
                     THEN createHubAddress(hubHost, "AGENT", AgentUuid)
                     ELSE createLocalAddress("AGENT", AgentUuid)
        refs == <<Ref("agent", AgentUuid, agentAddr)>>
    IN IF gatewayOk THEN ToolOutcome("ok", <<transformUuid>>, refs, m)
       ELSE ToolOutcome("error", <<>>, refs, m)

\* wisdom_create_relation, wisdom_type_fragment and wisdom_link_answer:
\* from, to and by are local addresses, the cache is neither read nor
\* written.
LocalRelationTool(m, from, fromDomain, to, toDomain, gatewayOk, relationUuid) ==
    LET refs == <<Ref("from", from, createLocalAddress(fromDomain, from)),
                  Ref("to", to, createLocalAddress(toDomain, to)),
                  Ref("by", AgentUuid, createLocalAddress("AGENT", AgentUuid))>>
    IN IF gatewayOk THEN ToolOutcome("ok", <<relationUuid>>, refs, m)
       ELSE ToolOutcome("error", <<>>, refs, m)

\* wisdom_create_relation
CreateRelationTool(m, source, target, gatewayOk, relationUuid) ==
    LocalRelationTool(m, source, "FRAGMENT", target, "FRAGMENT", gatewayOk, relationUuid)

\* wisdom_type_fragment, once the TYPE tag is found
TypeFragmentTool(m, fragment, typeTagUuid, gatewayOk, relationUuid) ==
    LocalRelationTool(m, fragment, "FRAGMENT", typeTagUuid, "TAG", gatewayOk, relationUuid)

\* wisdom_link_answer
LinkAnswerTool(m, answer, question, gatewayOk, relationUuid) ==
    LocalRelationTool(m, answer, "FRAGMENT", question, "FRAGMENT", gatewayOk, relationUuid)

\* wisdom_tag_fragment (tools/tags.ts) with a tag given by UUID: by, from
\* and to come from the cache, in this order.
TagFragmentTool(m, hubHost, fragment, tagUuid, gatewayOk, relationUuid) ==
    LET got == CacheGets(m, << <<AgentUuid, "AGENT">>, <<fragment, "FRAGMENT">>,
                               <<tagUuid, "TAG">> >>, hubHost)
        refs == <<Ref("from", fragment, got.addrs[2]), Ref("to", tagUuid, got.addrs[3]),
                  Ref("by", AgentUuid, got.addrs[1])>>
    IN IF gatewayOk THEN ToolOutcome("ok", <<relationUuid>>, refs, got.cache)
       ELSE ToolOutcome("error", <<>>, refs, got.cache)

SessCall(tool, outcome, before) ==
    [tool |-> tool, status |-> outcome.status, returned |-> outcome.returned,
     refs |-> outcome.refs, before |-> before]
SessNone == SessCall("none", ToolOutcome("none", <<>>, <<>>, <<>>), <<>>)

FragmentUuids == {"f1", "f2"}
TagUuids == {"t1"}
TransformUuids == {"x1"}
RelationUuids == {"r1"}
GwServerPorts == {"", "hub:1"}
SessHubHosts == {Undefined, "hub:2"}

(***************************************************************************)
(* tools/validity.ts: wisdom_find_contradictions.  A text is the sequence  *)
(* of its parts.                                                           *)
(***************************************************************************)
ContradictionListLimit == 100       \* context.gateway.listRelations(100)

FragmentNotFoundText == <<"[Fragment not found]">>

\* What getFragment(uuid) returns for a fragment the gateway has.
FetchedFragment(uuid) ==
    [uuid |-> uuid, content |-> <<"content of ", uuid>>, confidence |-> 800,
     creator |-> Address("hub:1", "AGENT", "a1")]

\* The string addressToString gives for the addresses of this section.
AddressText(addr) ==
    IF addr.server_port = "" /\ addr.domain = "" /\ addr.entity = "" THEN <<>>
    ELSE IF addr.server_port = "" THEN <<"/", addr.domain, "/", addr.entity>>
    ELSE <<addr.server_port, "/", addr.domain, "/", addr.entity>>

ContradictionEntry(uuid, content, confidence, rel, creator) ==
    [uuid |-> uuid, content |-> content, confidence |-> confidence,
     hasRelationConfidence |-> rel.hasConfidence, relation_confidence |-> rel.confidence,
     creator |-> creator]

\* The callback of contradictions.map: the entry for one relation.
ResolveContradiction(rel, failing) ==
    IF getFragmentFails(failing, rel.from.entity)
    THEN ContradictionEntry(rel.from.entity, FragmentNotFoundText, 0, rel, <<"unknown">>)
    ELSE LET frag == FetchedFragment(rel.from.entity)
         IN ContradictionEntry(frag.uuid, frag.content, frag.confidence, rel,
                               AddressText(frag.creator))

\* The response of a call, with the call it answers and the listing it used.
ContraResult(status, fragmentId, listOk, relationsData, contradictions) ==
    [status |-> status, fragment_id |-> fragmentId, listOk |-> listOk,
     relationsData |-> relationsData,
     contradiction_count |-> Len(contradictions), contradictions |-> contradictions]

ContraNone == ContraResult("none", "", FALSE, <<>>, <<>>)

\* relationsData.filter((r) => r.to.entity === fragmentId && r.type === 'CONTRADICTS')
ContradictionsOf(relationsData, fragmentId) ==
    SelectSeq(relationsData, LAMBDA r : r.to.entity = fragmentId /\ r.type = "CONTRADICTS")

\* A handler without the try/catch around the fetch of a source fragment.
FindContradictionsHandler_FailOnMissing(fragmentId, stored, failing, listOk) ==
    LET relationsData == listRelations(stored, ContradictionListLimit)
        contradictions == ContradictionsOf(relationsData, fragmentId)
    IN IF \/ getFragmentFails(failing, fragmentId) \/ ~listOk
          \/ \E i \in 1..Len(contradictions) :
                getFragmentFails(failing, contradictions[i].from.entity)
       THEN ContraResult("error", fragmentId, listOk, <<>>, <<>>)
       ELSE ContraResult("ok", fragmentId, listOk, relationsData,
                         [i \in 1..Len(contradictions) |->
                            ResolveContradiction(contradictions[i], failing)])

\* The handler of wisdom_find_contradictions; listOk: the listing request
\* succeeds.
FindContradictionsHandler(fragmentId, stored, failing, listOk) ==
    IF getFragmentFails(failing, fragmentId) \/ ~listOk
    THEN ContraResult("error", fragmentId, listOk, <<>>, <<>>)
    ELSE LET relationsData == listRelations(stored, ContradictionListLimit)
             contradictions == ContradictionsOf(relationsData, fragmentId)
         IN ContraResult("ok", fragmentId, listOk, relationsData,
                         [i \in 1..Len(contradictions) |->
                            ResolveContradiction(contradictions[i], failing)])

ContraFragments == {"F", "G", "K"}
ContraRelations ==
    {Relation(from, "F", type, TRUE, 800) :
        from \in {"G", "K"}, type \in {"SUPPORTS", "CONTRADICTS"}}
    \cup {Relation("G", "F", "CONTRADICTS", FALSE, 0), Relation("F", "F", "CONTRADICTS", TRUE, 300),
          Relation("K", "G", "CONTRADICTS", TRUE, 800)}

\* ---------------------------------------------------------------------------
\* config/loader.ts, server.ts updateConfig / reloadConfig, the project tools
\* and the key pair tools.  A configuration is the three fields the tools
\* below read and write.  A field holds a positive number, or Missing when it
\* is undefined / not in the JSON file; an update object holds NotGiven for a
\* key it does not have.  Key pair n and the agent registered with its
\* public key both carry the number n.
\* ---------------------------------------------------------------------------
Missing == 0
NotGiven == -1
CfgFields == {"private_key", "agent_uuid", "current_project"}

WisdomConfig(private_key, agent_uuid, current_project) ==
    [private_key |-> private_key, agent_uuid |-> agent_uuid, current_project |-> current_project]

EmptyConfig == WisdomConfig(Missing, Missing, Missing)

\* Object.assign(target, updates) and {...existing, ...config}: every key of
\* the second object overwrites, a key holding undefined included.
ObjectAssign(target, updates) ==
    [f \in CfgFields |-> IF updates[f] = NotGiven THEN target[f] ELSE updates[f]]

\* mergeConfigs(globalConfig, envConfig, projectConfig): Object.assign in that
\* order; a parsed file and the environment object have no undefined keys.
mergeConfigs(globalConfig, envConfig_, projectConfig) ==
    [f \in CfgFields |->
        IF projectConfig[f] # Missing THEN projectConfig[f]
        ELSE IF envConfig_[f] # Missing THEN envConfig_[f]
        ELSE globalConfig[f]]

\* loadConfig(): the project file is read only when a project root was found.
loadConfig(globalConfig, envConfig_, projectConfig, projectRoot) ==
    mergeConfigs(globalConfig, envConfig_, IF projectRoot THEN projectConfig ELSE EmptyConfig)

\* saveConfig(config, configPath): the file after the call.  JSON.stringify
\* drops a key holding undefined; a write that throws leaves the file alone.
saveConfig(existing, updates, writeOk) ==
    IF writeOk THEN ObjectAssign(existing, updates) ELSE existing

\* The files after saveProjectConfig(updates) / saveGlobalConfig(updates).
Files(project, global) == [project |-> project, global |-> global]

SaveTo(target, files, updates, writeOk) ==
    IF target = "project"
    THEN Files(saveConfig(files.project, updates, writeOk), files.global)
    ELSE Files(files.project, saveConfig(files.global, updates, writeOk))

\* context.updateConfig(updates, persist): memory is updated at once; with
\* persist the save runs in the callback of a dynamic import, after the caller
\* has gone on, to the project file when paths.projectConfig is set.
PendingSave(target, updates) == [target |-> target, updates |-> updates]

UpdateTarget(projectRoot) == IF projectRoot THEN "project" ELSE "global"

updateConfig(mem, pending, updates, persist, projectRoot) ==
    [config  |-> ObjectAssign(mem, updates),
     pending |-> IF persist
                 THEN Append(pending, PendingSave(UpdateTarget(projectRoot), updates))
                 ELSE pending]

ProjectUpdate(current_project) == WisdomConfig(NotGiven, NotGiven, current_project)
KeyUpdate(private_key, agent_uuid) == WisdomConfig(private_key, agent_uuid, NotGiven)

\* The response of a project or key pair tool.
CfgResponse(tool, isError, persisted, project, target) ==
    [tool |-> tool, isError |-> isError, persisted |-> persisted, project |-> project, target |-> target]

CfgNone == CfgResponse("none", FALSE, FALSE, Missing, "global")

\* wisdom_set_project: gateway.getProject throws for an unknown project, then
\* updateConfig({current_project}, persist); the response says persisted: persist.
SetProjectHandler(mem, pending, projectUuid, persist, projectFound, projectRoot) ==
    IF ~projectFound
    THEN [config |-> mem, pending |-> pending,
          response |-> CfgResponse("wisdom_set_project", TRUE, FALSE, projectUuid, UpdateTarget(projectRoot))]
    ELSE LET u == updateConfig(mem, pending, ProjectUpdate(projectUuid), persist, projectRoot)
         IN [config |-> u.config, pending |-> u.pending,
             response |-> CfgResponse("wisdom_set_project", FALSE, persist, projectUuid, UpdateTarget(projectRoot))]

\* wisdom_create_project: throws without an agent_uuid or when the gateway
\* refuses; with set_as_current, updateConfig({current_project: project.id},
\* true); the response says is_current: setAsCurrent.
CreateProjectHandler(mem, pending, projectId, setAsCurrent, created, projectRoot) ==
    IF mem.agent_uuid = Missing \/ ~created
    THEN [config |-> mem, pending |-> pending,
          response |-> CfgResponse("wisdom_create_project", TRUE, FALSE, projectId, UpdateTarget(projectRoot))]
    ELSE LET u == IF setAsCurrent
                  THEN updateConfig(mem, pending, ProjectUpdate(projectId), TRUE, projectRoot)
                  ELSE [config |-> mem, pending |-> pending]
         IN [config |-> u.config, pending |-> u.pending,
             response |-> CfgResponse("wisdom_create_project", FALSE, setAsCurrent, projectId, UpdateTarget(projectRoot))]

\* wisdom_clear_project: updateConfig({current_project: undefined}, persist).
ClearProjectHandler(mem, pending, persist, projectRoot) ==
    LET u == updateConfig(mem, pending, ProjectUpdate(Missing), persist, projectRoot)
    IN [config |-> u.config, pending |-> u.pending,
        response |-> CfgResponse("wisdom_clear_project", FALSE, persist, Missing, UpdateTarget(projectRoot))]

\* wisdom_generate_keypair: a new key pair; the agent is registered with it
\* when register is set and the gateway accepts; {private_key, agent_uuid} is
\* saved, agent_uuid being undefined without a registration, and memory is
\* updated after a save that did not throw.
KeyOutcome(config_, files) == [config |-> config_, files |-> files]

GenerateKeypairHandler(mem, files, newKey, register, registrationOk, saveTo, writeOk, projectRoot) ==
    LET agentUuid == IF register /\ registrationOk THEN newKey ELSE Missing
        configUpdate == KeyUpdate(newKey, agentUuid)
        target == IF saveTo = "project" /\ projectRoot THEN "project" ELSE "global"
    IN IF writeOk
       THEN KeyOutcome(updateConfig(mem, <<>>, configUpdate, FALSE, projectRoot).config,
                       SaveTo(target, files, configUpdate, TRUE))
       ELSE KeyOutcome(mem, files)

\* wisdom_quickstart, step 1: without a private_key or an agent_uuid in memory
\* a key pair is generated and its agent registered; only a registration and
\* a save that both succeeded change the file (getPreferredConfigPath) and
\* memory.
QuickstartHandler(mem, files, newKey, registrationOk, writeOk, projectRoot) ==
    IF mem.private_key = Missing \/ mem.agent_uuid = Missing
    THEN IF registrationOk /\ writeOk
         THEN LET configUpdate == KeyUpdate(newKey, newKey)
              IN KeyOutcome(updateConfig(mem, <<>>, configUpdate, FALSE, projectRoot).config,
                            SaveTo(UpdateTarget(projectRoot), files, configUpdate, TRUE))
         ELSE KeyOutcome(mem, files)
    ELSE KeyOutcome(mem, files)

\* wisdom_reload_config: context.reloadConfig() replaces memory by loadConfig().
ReloadConfigHandler(files, env, projectRoot) ==
    loadConfig(files.global, env, files.project, projectRoot)

CryptoIdle ==
    /\ signedMsg = NoMsg
    /\ signedKey = 0
    /\ signature = <<>>
    /\ verMsg = NoMsg
    /\ verKey = edGetPublicKey(0)
    /\ verResult = FALSE

PayloadIdle ==
    /\ entKind = NoValue
    /\ entA = <<>>
    /\ entB = <<>>
    /\ swaps = 0

CacheIdle ==
    /\ cache = <<>>
    /\ maxSize = 1
    /\ lastTouch = [k \in CacheKeys |-> 0]
    /\ lastPut = [k \in CacheKeys |-> NoAddress]
    /\ clock = 0
    /\ cacheOp = CacheOp("new", "", "", Undefined, NoAddress, NoAddress, FALSE)

AddressIdle ==
    /\ addrIn = Address(<<>>, <<>>, <<>>)
    /\ addrStr = <<>>
    /\ addrOut = Parsed("none", <<>>, <<>>, <<>>)

GatewayIdle ==
    /\ gwRelations = <<>>
    /\ gwFailing = {}

ToolIdle ==
    /\ evResult = EvNone
    /\ chainResult = ChainNone
    /\ contraResult = ContraNone

ContextIdle ==
    /\ gwSearch = <<>>
    /\ ctxResult = CtxNone

PresetIdle ==
    /\ presetCall = PresetNone

ServerIdle ==
    /\ config = Config("", "")
    /\ keyManager = KeyManagerSetConfig(Config("", ""))
    /\ gwHubHeaders = HubHeaders("", "")
    /\ lastHubStatus = NullHubStatus
    /\ lastHeaders = NoHeaders
    /\ gwRequests = <<>>
    /\ response = NoResponse

SessionIdle ==
    /\ cfgHubHost = Undefined
    /\ gwFragments = <<>>
    /\ sessCall = SessNone

ConfigIdle ==
    /\ memConfig = EmptyConfig
    /\ projectFile = EmptyConfig
    /\ globalFile = EmptyConfig
    /\ envConfig = EmptyConfig
    /\ hasProjectRoot = FALSE
    /\ generated = 0
    /\ pendingSaves = <<>>
    /\ saveRejected = FALSE
    /\ cfgResponse = CfgNone

InitCrypto ==
    /\ CryptoIdle /\ PayloadIdle /\ CacheIdle /\ AddressIdle /\ GatewayIdle /\ ToolIdle
    /\ ContextIdle /\ PresetIdle /\ ServerIdle /\ SessionIdle /\ ConfigIdle

\* sign(message, keypair.privateKey)
Sign(m, k) ==
    /\ signedMsg = NoMsg
    /\ signedMsg' = m
    /\ signedKey' = generateKeyPair(k).privateKey
    /\ signature' = sign(m, generateKeyPair(k).privateKey)
    /\ verMsg' = NoMsg /\ verKey' = edGetPublicKey(0) /\ verResult' = FALSE
    /\ UNCHANGED <<payloadVars, cacheVars, addressVars, gatewayVars, toolVars,
                 contextVars, presetVars, serverVars, sessionVars, configVars>>

\* verify(message, signature, keypair.publicKey) on the signature made last
Verify(m, k) ==
    /\ signedMsg # NoMsg
    /\ verMsg = NoMsg
    /\ verMsg' = m
    /\ verKey' = generateKeyPair(k).publicKey
    /\ verResult' = verify(m, signature, generateKeyPair(k).publicKey)
    /\ UNCHANGED <<signedMsg, signedKey, signature>>
    /\ UNCHANGED <<payloadVars, cacheVars, addressVars, gatewayVars, toolVars,
                 contextVars, presetVars, serverVars, sessionVars, configVars>>

NextCrypto ==
    \/ \E m \in Messages, k \in Keys : Sign(m, k)
    \/ \E m \in Messages, k \in Keys : Verify(m, k)

SpecCrypto == InitCrypto /\ [][NextCrypto]_vars

Verified == verMsg # NoMsg

\* C1 as stated: a matching key and message verify, another key pair's
\* public key does not, and no message other than the signed one verifies
\* (here: no other message of the same type, string or Uint8Array).
C1_AsStated ==
    Verified =>
        /\ (verMsg = signedMsg /\ verKey = edGetPublicKey(signedKey)) => verResult = TRUE
        /\ verKey # edGetPublicKey(signedKey) => verResult = FALSE
        /\ (verMsg.kind = signedMsg.kind /\ verMsg # signedMsg) => verResult = FALSE

\* C1 amended: a matching key and message verify, another key pair's public
\* key does not, and no message whose bytes (the UTF-8 encoding of a string,
\* unpaired surrogates replaced by U+FFFD) differ from the signed bytes
\* verifies.
C1_SignVerify ==
    Verified =>
        /\ (verMsg = signedMsg /\ verKey = edGetPublicKey(signedKey)) => verResult = TRUE
        /\ verKey # edGetPublicKey(signedKey) => verResult = FALSE
        /\ MessageBytes(verMsg) # MessageBytes(signedMsg) => verResult = FALSE

C1_Witness ==
    /\ Verified
    /\ signedMsg.kind = "string" /\ Len(signedMsg.data) = MaxMsgLen
    /\ verMsg = signedMsg
    /\ verKey = edGetPublicKey(signedKey)
    /\ verResult = TRUE

(***************************************************************************)
(* Signable payloads under reordering of an entity's properties.           *)
(***************************************************************************)
SwapSeq(seq, i, j) ==
    [n \in 1..Len(seq) |-> IF n = i THEN seq[j] ELSE IF n = j THEN seq[i] ELSE seq[n]]

\* The object with its properties i and j listed in each other's place.
SwapProps(obj, i, j) == [obj EXCEPT !.kids = SwapSeq(obj.kids, i, j)]

\* The object or array with its n-th member replaced.
WithKid(v, n, w) == [v EXCEPT !.kids[n].v = w]

InitPayload ==
    /\ entKind \in {"fragment", "relation"}
    /\ entA \in (IF entKind = "fragment" THEN BaseFragments ELSE BaseRelations)
    /\ entB = entA
    /\ swaps = 0
    /\ CryptoIdle /\ CacheIdle /\ AddressIdle /\ GatewayIdle /\ ToolIdle
    /\ ContextIdle /\ PresetIdle /\ ServerIdle /\ SessionIdle /\ ConfigIdle

PayloadFrame == UNCHANGED <<entKind, entA, cryptoVars, cacheVars, addressVars,
                            gatewayVars, toolVars,
                 contextVars, presetVars, serverVars, sessionVars, configVars>>

\* The caller lists two top-level fields of the entity in another order.
SwapTopLevel(i, j) ==
    /\ swaps < MaxSwaps
    /\ i < j /\ j <= Len(entB.kids)
    /\ entB' = SwapProps(entB, i, j)
    /\ swaps' = swaps + 1
    /\ PayloadFrame

\* A nested object (an Address) lists two of its fields in another order.
SwapNested(n, i, j) ==
    /\ swaps < MaxSwaps
    /\ n <= Len(entB.kids)
    /\ entB.kids[n].v.t = "obj"
    /\ i < j /\ j <= Len(entB.kids[n].v.kids)
    /\ entB' = WithKid(entB, n, SwapProps(entB.kids[n].v, i, j))
    /\ swaps' = swaps + 1
    /\ PayloadFrame

\* An element of a nested array (a tag Address) lists two of its fields in
\* another order.
SwapInElement(n, e, i, j) ==
    /\ swaps < MaxSwaps
    /\ n <= Len(entB.kids)
    /\ entB.kids[n].v.t = "arr"
    /\ e <= Len(entB.kids[n].v.kids)
    /\ entB.kids[n].v.kids[e].v.t = "obj"
    /\ i < j /\ j <= Len(entB.kids[n].v.kids[e].v.kids)
    /\ entB' = WithKid(entB, n,
                   WithKid(entB.kids[n].v, e, SwapProps(entB.kids[n].v.kids[e].v, i, j)))
    /\ swaps' = swaps + 1
    /\ PayloadFrame

\* obj with property key set to value ({...obj, [key]: value}).
SetProp(obj, key, value) ==
    IF \E i \in 1..Len(obj.kids) : obj.kids[i].k = key
    THEN [obj EXCEPT !.kids = [i \in 1..Len(obj.kids) |->
                                  IF obj.kids[i].k = key THEN Prop(key, value) ELSE obj.kids[i]]]
    ELSE [obj EXCEPT !.kids = Append(obj.kids, Prop(key, value))]

\* The fields of a relation calculateEvidenceBalance reads, each with a value
\* no base relation has.
BalanceFields == {"from", "to", "type", "confidence"}

OtherValue(field) ==
    CASE field = "from" -> JAddress("hub:1", "FRAGMENT", "f3")
      [] field = "to" -> JAddress("", "FRAGMENT", "f3")
      [] field = "type" -> JStr("CONTRADICTS")
      [] field = "confidence" -> JNum("0.1")

\* Another relation: the same object with one of these fields changed.
ChangeField(field) ==
    /\ swaps < MaxSwaps
    /\ entKind = "relation"
    /\ entB' = SetProp(entB, field, OtherValue(field))
    /\ swaps' = swaps + 1
    /\ PayloadFrame

NextPayload ==
    \/ \E field \in BalanceFields : ChangeField(field)
    \/ \E i, j \in 1..Len(entB.kids) : SwapTopLevel(i, j)
    \/ \E n \in 1..Len(entB.kids), i, j \in 1..3 : SwapNested(n, i, j)
    \/ \E n \in 1..Len(entB.kids), i, j \in 1..3 : SwapInElement(n, 1, i, j)

SpecPayload == InitPayload /\ [][NextPayload]_vars

\* The two objects have the same properties with the same values.
SameFieldValues(a, b) ==
    /\ {a.kids[i].k : i \in 1..Len(a.kids)} = {b.kids[i].k : i \in 1..Len(b.kids)}
    /\ \A i \in 1..Len(a.kids) : GetProp(b, a.kids[i].k) = a.kids[i].v

\* C2: two fragment objects holding the same field values, their top-level
\* fields listed in a different order, have the identical signable payload.
C2_TopLevelOrder ==
    (entKind = "fragment" /\ SameFieldValues(entA, entB)) =>
        getFragmentSignablePayload(entA) = getFragmentSignablePayload(entB)

C2_Witness ==
    /\ entKind = "fragment"
    /\ swaps = MaxSwaps
    /\ SameFieldValues(entA, entB)
    /\ ObjectKeys(entA) # ObjectKeys(entB)
    /\ Len(entA.kids) = 8
    /\ getFragmentSignablePayload(entA) = getFragmentSignablePayload(entB)

\* The value with the keys of every object in it, nested ones too, sorted.
RECURSIVE DeepSorted(_)
DeepSorted(v) ==
    IF v.t = "obj"
    THEN LET ks == SortKeys(ObjectKeys(v))
         IN JObj([i \in 1..Len(ks) |-> Prop(ks[i], DeepSorted(GetProp(v, ks[i])))])
    ELSE IF v.t = "arr"
    THEN JArr([i \in 1..Len(v.kids) |-> DeepSorted(v.kids[i].v)])
    ELSE v

\* C3: two payloads that are equal except for the order in which a nested
\* Address lists server_port, domain and entity have the identical
\* canonical string.
C3_NestedOrder ==
    DeepSorted(entA) = DeepSorted(entB) =>
        SignablePayload(entKind, entA) = SignablePayload(entKind, entB)

\* C29: two relations that differ in from, to, type or confidence, the fields
\* the evidence balance reads, have different signable payloads.
C29_BalanceFieldsSigned ==
    (entKind = "relation" /\ \E field \in BalanceFields : GetProp(entA, field) # GetProp(entB, field)) =>
        getRelationSignablePayload(entA) # getRelationSignablePayload(entB)

(***************************************************************************)
(* The AddressCache under put, get, has and clear.                         *)
(***************************************************************************)
InitCache ==
    /\ cache = <<>>
    /\ maxSize \in 1..MaxCap
    /\ lastTouch = [k \in CacheKeys |-> 0]
    /\ lastPut = [k \in CacheKeys |-> NoAddress]
    /\ clock = 0
    /\ cacheOp = CacheOp("new", "", "", Undefined, NoAddress, NoAddress, FALSE)
    /\ CryptoIdle /\ PayloadIdle /\ AddressIdle /\ GatewayIdle /\ ToolIdle
    /\ ContextIdle /\ PresetIdle /\ ServerIdle /\ SessionIdle /\ ConfigIdle

CacheFrame == UNCHANGED <<maxSize, cryptoVars, payloadVars, addressVars, gatewayVars,
                          toolVars, contextVars, presetVars, serverVars, sessionVars, configVars>>

Put(uuid, addr) ==
    /\ clock < MaxOps
    /\ cache' = AddressCachePut(cache, maxSize, uuid, addr)
    /\ clock' = clock + 1
    /\ lastTouch' = [lastTouch EXCEPT ![uuid] = clock + 1]
    /\ lastPut' = [lastPut EXCEPT ![uuid] = addr]
    /\ cacheOp' = CacheOp("put", uuid, "", Undefined, addr, NoAddress, FALSE)
    /\ CacheFrame

Get(uuid, domain, hubHost) ==
    /\ clock < MaxOps
    /\ cache' = AddressCacheGetMap(cache, uuid)
    /\ clock' = clock + 1
    /\ lastTouch' = IF MapHas(cache, uuid)
                    THEN [lastTouch EXCEPT ![uuid] = clock + 1] ELSE lastTouch
    /\ cacheOp' = CacheOp("get", uuid, domain, hubHost, NoAddress,
                          AddressCacheGet(cache, uuid, domain, hubHost), FALSE)
    /\ UNCHANGED lastPut
    /\ CacheFrame

Has(uuid) ==
    /\ clock < MaxOps
    /\ clock' = clock + 1
    /\ cacheOp' = CacheOp("has", uuid, "", Undefined, NoAddress, NoAddress,
                          MapHas(cache, uuid))
    /\ UNCHANGED <<cache, lastTouch, lastPut>>
    /\ CacheFrame

Clear ==
    /\ clock < MaxOps
    /\ cache' = <<>>
    /\ clock' = clock + 1
    /\ cacheOp' = CacheOp("clear", "", "", Undefined, NoAddress, NoAddress, FALSE)
    /\ UNCHANGED <<lastTouch, lastPut>>
    /\ CacheFrame

NextCache ==
    \/ \E uuid \in CacheKeys : \E addr \in PutAddresses(uuid) : Put(uuid, addr)
    \/ \E uuid \in CacheKeys, domain \in GetDomains, hubHost \in HubHosts :
            Get(uuid, domain, hubHost)
    \/ \E uuid \in CacheKeys : Has(uuid)
    \/ Clear

SpecCache == InitCache /\ [][NextCache]_vars

\* The cached key whose last put or get hit is the oldest.
LeastRecentlyUsed(m, touch) ==
    CHOOSE e \in MapKeys(m) : \A o \in MapKeys(m) : touch[e] <= touch[o]

\* C4: in a cache of capacity N holding N entries (keyed by UUIDs), a put of
\* a UUID not yet cached removes exactly one entry, the one whose last put or
\* get hit is the oldest, and leaves the other entries as they were.
C4_EvictsLeastRecentlyUsed ==
    [][ ( /\ cacheOp'.op = "put"
          /\ clock' = clock + 1
          /\ Len(cache) = maxSize
          /\ "" \notin MapKeys(cache) \cup {cacheOp'.key}
          /\ ~MapHas(cache, cacheOp'.key) )
        => LET lru == LeastRecentlyUsed(cache, lastTouch)
           IN /\ MapKeys(cache') = (MapKeys(cache) \ {lru}) \cup {cacheOp'.key}
              /\ Len(cache') = maxSize
              /\ \A k \in MapKeys(cache) \ {lru} : MapGet(cache', k) = MapGet(cache, k)
      ]_vars

\* A full cache of capacity 2 in which the older entry was read with get
\* after the newer one was put, and a third UUID was then put: the entry
\* that was read is still cached.
C4_Witness ==
    /\ maxSize = 2
    /\ cacheOp.op = "put"
    /\ cacheOp.key = "u3"
    /\ MapKeys(cache) = {"u1", "u3"}
    /\ lastTouch["u1"] > lastTouch["u2"]
    /\ lastTouch["u2"] > 0
    /\ lastPut["u1"] # NoAddress
    /\ clock = 4

\* C5: the number of cached entries never exceeds maxSize.
C5_CapacityBound == Len(cache) <= maxSize

\* C6: get returns the address last put for a cached uuid, whatever domain
\* and hubHost are; for a uuid not cached it returns the local address when
\* hubHost is absent or empty and the hub-qualified address otherwise.
C6_GetResult ==
    cacheOp.op = "get" =>
        cacheOp.result =
            IF MapHas(cache, cacheOp.key) THEN lastPut[cacheOp.key]
            ELSE IF cacheOp.hubHost \in {Undefined, ""}
            THEN Address("", cacheOp.domain, cacheOp.key)
            ELSE Address(cacheOp.hubHost, cacheOp.domain, cacheOp.key)

\* A get of a cached uuid with a domain and a hub host that differ from the
\* cached address.
C6_Witness ==
    /\ cacheOp.op = "get"
    /\ MapHas(cache, cacheOp.key)
    /\ cacheOp.hubHost = "hub:2"
    /\ cacheOp.domain = "AGENT"
    /\ cacheOp.result = Address("hub:1", "FRAGMENT", cacheOp.key)

(***************************************************************************)
(* Address string round trip.                                              *)
(***************************************************************************)
InitAddress ==
    /\ CryptoIdle /\ PayloadIdle /\ CacheIdle /\ AddressIdle /\ GatewayIdle /\ ToolIdle
    /\ ContextIdle /\ PresetIdle /\ ServerIdle /\ SessionIdle /\ ConfigIdle

AddressFrame == UNCHANGED <<cryptoVars, payloadVars, cacheVars, gatewayVars, toolVars,
                 contextVars, presetVars, serverVars, sessionVars, configVars>>

Serialise(addr) ==
    /\ addrIn' = addr
    /\ addrStr' = addressToString(addr)
    /\ addrOut' = Parsed("none", <<>>, <<>>, <<>>)
    /\ AddressFrame

Parse ==
    /\ addrOut.status = "none"
    /\ addrIn # Address(<<>>, <<>>, <<>>)
    /\ addrOut' = parseAddress(addrStr)
    /\ UNCHANGED <<addrIn, addrStr>>
    /\ AddressFrame

NextAddress ==
    \/ \E addr \in AddressInputs : Serialise(addr)
    \/ Parse

SpecAddress == InitAddress /\ [][NextAddress]_vars

\* C7: for a well-formed Address a, parseAddress(addressToString(a)) equals
\* a field by field, and a local address serialises with a leading '/'.
C7_RoundTrip ==
    (addrOut.status # "none" /\ WellFormed(addrIn)) =>
        /\ addrOut.status = "ok"
        /\ addrOut.addr.server_port = addrIn.server_port
        /\ addrOut.addr.domain = addrIn.domain
        /\ addrOut.addr.entity = addrIn.entity
        /\ addrIn.server_port = <<>> => Head(addrStr) = "/"

C7_Witness ==
    /\ addrOut.status = "ok"
    /\ WellFormed(addrIn)
    /\ addrIn.server_port = <<>>
    /\ addrOut.addr = addrIn
    /\ Head(addrStr) = "/"

(***************************************************************************)
(* wisdom_get_evidence_balance against a gateway that other agents add     *)
(* relations to.                                                           *)
(***************************************************************************)
InitEvidence ==
    /\ gwRelations = <<>>
    /\ gwFailing \in SUBSET {"H"}
    /\ evResult = EvNone
    /\ chainResult = ChainNone
    /\ contraResult = ContraNone
    /\ CryptoIdle /\ PayloadIdle /\ CacheIdle /\ AddressIdle
    /\ ContextIdle /\ PresetIdle /\ ServerIdle /\ SessionIdle /\ ConfigIdle

EvidenceFrame == UNCHANGED <<gwFailing, chainResult, contraResult, cryptoVars, payloadVars, cacheVars,
                             addressVars, contextVars, presetVars, serverVars, sessionVars, configVars>>

\* The relations created since the gateway was empty or held one full page.
RecentRelations(stored) ==
    IF Len(stored) >= EvidenceListLimit THEN Len(stored) - EvidenceListLimit
    ELSE Len(stored)

\* Other agents have filled the gateway with a page of relations.
StorePage(r) ==
    /\ evResult.status = "none"
    /\ gwRelations = <<>>
    /\ gwRelations' = [i \in 1..EvidenceListLimit |-> r]
    /\ UNCHANGED evResult
    /\ EvidenceFrame

\* A relation is created at the gateway.
StoreEvRelation(r) ==
    /\ evResult.status = "none"
    /\ RecentRelations(gwRelations) < MaxEvRelations
    /\ gwRelations' = Append(gwRelations, r)
    /\ UNCHANGED evResult
    /\ EvidenceFrame

\* One call of the tool, from the request to the response.
GetEvidenceBalance(fragmentId, listOk) ==
    /\ evResult.status = "none"
    /\ evResult' = GetEvidenceBalanceHandler(fragmentId, gwRelations, gwFailing, listOk)
    /\ UNCHANGED gwRelations
    /\ EvidenceFrame

\* The caller has taken the response.
DeliverEvidence ==
    /\ evResult.status # "none"
    /\ evResult' = EvNone
    /\ UNCHANGED gwRelations
    /\ EvidenceFrame

NextEvidence ==
    \/ \E r \in EvRelations : StoreEvRelation(r)
    \/ \E r \in EvPageRelations : StorePage(r)
    \/ \E f \in EvFragments, listOk \in BOOLEAN : GetEvidenceBalance(f, listOk)
    \/ DeliverEvidence

SpecEvidence == InitEvidence /\ [][NextEvidence]_vars

\* The sum of confidence over the relations of the list with the given
\* target and type.
RECURSIVE SumConfidenceRange(_, _, _, _, _)
SumConfidenceRange(relations, target, type, lo, hi) ==
    IF lo > hi THEN 0
    ELSE IF lo = hi
    THEN (IF relations[lo].to.entity = target /\ relations[lo].type = type
          THEN relations[lo].confidence ELSE 0)
    ELSE SumConfidenceRange(relations, target, type, lo, (lo + hi) \div 2)
         + SumConfidenceRange(relations, target, type, (lo + hi) \div 2 + 1, hi)

SumConfidence(relations, target, type) ==
    SumConfidenceRange(relations, target, type, 1, Len(relations))

\* C8: over a list of relations that each carry a confidence, support_score
\* and contradict_score are the sums of confidence over the SUPPORTS and the
\* CONTRADICTS relations whose target is the thesis, net_score is their
\* difference, and the verdict is well_supported iff net_score > 0.5,
\* contested iff net_score < -0.5, neutral otherwise (at exactly 0.5 too).
C8_EvidenceBalance ==
    ( /\ evResult.status = "ok"
      /\ \A i \in 1..Len(evResult.relationsData) : evResult.relationsData[i].hasConfidence )
    => LET F == evResult.fragment_id
           support == SumConfidence(evResult.relationsData, F, "SUPPORTS")
           contradict == SumConfidence(evResult.relationsData, F, "CONTRADICTS")
           net == support - contradict
       IN /\ evResult.balance.support_score = support
          /\ evResult.balance.contradict_score = contradict
          /\ evResult.balance.net_score = net
          /\ evResult.verdict = "well_supported" <=> net > 500
          /\ evResult.verdict = "contested" <=> net < -500
          /\ evResult.verdict = "neutral" <=> (net <= 500 /\ net >= -500)

\* SUPPORTS 0.8 and CONTRADICTS 0.3 on the thesis: net_score 0.5, neutral.
C8_Witness ==
    /\ evResult.status = "ok"
    /\ Len(evResult.relationsData) = 2
    /\ evResult.balance.support_score = 800
    /\ evResult.balance.contradict_score = 300
    /\ evResult.balance.net_score = 500
    /\ evResult.verdict = "neutral"

\* The sum, over the relations stored with the given target and type, of
\* their confidence (1.0 where a relation has none).
RECURSIVE StoredScoreRange(_, _, _, _, _)
StoredScoreRange(stored, target, type, lo, hi) ==
    IF lo > hi THEN 0
    ELSE IF lo = hi
    THEN (IF stored[lo].to.entity = target /\ stored[lo].type = type
          THEN (IF stored[lo].hasConfidence THEN stored[lo].confidence
                ELSE DefaultConfidence)
          ELSE 0)
    ELSE StoredScoreRange(stored, target, type, lo, (lo + hi) \div 2)
         + StoredScoreRange(stored, target, type, (lo + hi) \div 2 + 1, hi)

StoredScore(stored, target, type) == StoredScoreRange(stored, target, type, 1, Len(stored))

\* C27: the balance wisdom_get_evidence_balance returns for a thesis
\* accounts for every SUPPORTS and CONTRADICTS relation the gateway stores
\* with that target, however many relations the gateway holds.
C27_AllStoredCounted ==
    evResult.status = "ok" =>
        /\ evResult.balance.support_score
                = StoredScore(gwRelations, evResult.fragment_id, "SUPPORTS")
        /\ evResult.balance.contradict_score
                = StoredScore(gwRelations, evResult.fragment_id, "CONTRADICTS")
        /\ Len(evResult.supporting) + Len(evResult.contradicting)
                = Cardinality({i \in 1..Len(gwRelations) :
                                /\ gwRelations[i].to.entity = evResult.fragment_id
                                /\ gwRelations[i].type \in {"SUPPORTS", "CONTRADICTS"}})

(***************************************************************************)
(* wisdom_check_derivation_chain against a gateway that other agents add   *)
(* relations to.                                                           *)
(***************************************************************************)
InitChain ==
    /\ gwRelations = <<>>
    /\ gwFailing \in ChainFailing
    /\ evResult = EvNone
    /\ chainResult = ChainNone
    /\ contraResult = ContraNone
    /\ CryptoIdle /\ PayloadIdle /\ CacheIdle /\ AddressIdle
    /\ ContextIdle /\ PresetIdle /\ ServerIdle /\ SessionIdle /\ ConfigIdle

ChainFrame == UNCHANGED <<gwFailing, evResult, contraResult, cryptoVars, payloadVars, cacheVars,
                          addressVars, contextVars, presetVars, serverVars, sessionVars, configVars>>

\* A relation is created at the gateway.
StoreChainRelation(r) ==
    /\ chainResult.status = "none"
    /\ Len(gwRelations) < MaxChainRelations
    /\ \A i \in 1..Len(gwRelations) : gwRelations[i] # r
    /\ gwRelations' = Append(gwRelations, r)
    /\ UNCHANGED chainResult
    /\ ChainFrame

\* The caller has taken the response.
DeliverChain ==
    /\ chainResult.status # "none"
    /\ chainResult' = ChainNone
    /\ UNCHANGED gwRelations
    /\ ChainFrame

\* One call of the tool, from the request to the response.
CheckDerivationChain(fragmentId, arg, listOk) ==
    /\ chainResult.status = "none"
    /\ chainResult' = CheckDerivationChainHandler(fragmentId, arg, gwRelations,
                                                  gwFailing, listOk)
    /\ UNCHANGED gwRelations
    /\ ChainFrame

NextChain ==
    \/ \E r \in ChainRelations : StoreChainRelation(r)
    \/ \E f \in ChainRoots, arg \in MaxDepthArgs, listOk \in BOOLEAN :
            CheckDerivationChain(f, arg, listOk)
    \/ DeliverChain

SpecChain == InitChain /\ [][NextChain]_vars

\* The DERIVED_FROM relations of the list, as pairs <<from, to>>.
DerivedEdges(relations) ==
    { <<relations[i].from.entity, relations[i].to.entity>> :
        i \in {j \in 1..Len(relations) : relations[j].type = "DERIVED_FROM"} }

CycleABC == {<<"A", "B">>, <<"B", "C">>, <<"C", "A">>}

HasIssue(result, fragId, issueType) ==
    \E i \in 1..Len(result.issues) : result.issues[i] = Issue(fragId, issueType)

\* C9 as stated: when the DERIVED_FROM relations form the cycle
\* A -> B -> C -> A, a check started at A records a circular_dependency
\* issue for A and returns validity broken.
C9_AsStated ==
    ( /\ chainResult.status = "ok"
      /\ chainResult.fragment_id = "A"
      /\ DerivedEdges(chainResult.relationsData) = CycleABC )
    => /\ HasIssue(chainResult, "A", "circular_dependency")
       /\ chainResult.validity = "broken"

\* C9 amended: the same, when the depth limit in force (max_depth, or 10
\* when max_depth is absent or 0) is at least 2; the issue for A is
\* recorded by the call of traverse on A made from C, at depth 3.
C9_CycleDetected ==
    ( /\ chainResult.status = "ok"
      /\ chainResult.fragment_id = "A"
      /\ DerivedEdges(chainResult.relationsData) = CycleABC
      /\ (~chainResult.max_depth.given \/ chainResult.max_depth.v = 0
            \/ chainResult.max_depth.v >= 2) )
    => /\ HasIssue(chainResult, "A", "circular_dependency")
       /\ chainResult.validity = "broken"
       /\ chainResult.calls[Len(chainResult.calls)] = <<"A", 3>>
       /\ [i \in 1..Len(chainResult.derivation_chain) |->
                chainResult.derivation_chain[i].fragment_id] = <<"A", "B", "C">>

\* The cycle checked from A with max_depth 2, every fragment existing.
C9_Witness ==
    /\ chainResult.status = "ok"
    /\ chainResult.fragment_id = "A"
    /\ DerivedEdges(chainResult.relationsData) = CycleABC
    /\ chainResult.max_depth = MaxDepth(2)
    /\ chainResult.failing = {}
    /\ chainResult.issues = <<Issue("A", "circular_dependency")>>
    /\ chainResult.validity = "broken"

InSeq(x, seq) == \E i \in 1..Len(seq) : seq[i] = x

\* C10: when a fragment D of the chain derives from a UUID whose fetch
\* fails, the report has a missing_reference issue for D and validity
\* broken, and every derives_from target of D is fetched and traversed.
C10_MissingReference ==
    chainResult.status = "ok" =>
        \A n \in 1..Len(chainResult.derivation_chain) :
            LET D == chainResult.derivation_chain[n]
                targets == { chainResult.relationsData[i].to.entity :
                                i \in { j \in 1..Len(chainResult.relationsData) :
                                    /\ chainResult.relationsData[j].type = "DERIVED_FROM"
                                    /\ chainResult.relationsData[j].from.entity
                                            = D.fragment_id } }
            IN (\E t \in targets : t \in chainResult.failing) =>
                /\ HasIssue(chainResult, D.fragment_id, "missing_reference")
                /\ chainResult.validity = "broken"
                /\ \A t \in targets :
                    /\ InSeq(<<D.fragment_id, t>>, chainResult.fetched)
                    /\ InSeq(<<t, D.depth + 1>>, chainResult.calls)

\* A derives from B, whose fetch fails, and then from C, which exists: C is
\* still fetched and gets its own chain entry.
C10_Witness ==
    /\ chainResult.status = "ok"
    /\ chainResult.fragment_id = "A"
    /\ chainResult.failing = {"B"}
    /\ chainResult.derivation_chain # <<>>
    /\ chainResult.derivation_chain[1].derives_from = <<"B", "C">>
    /\ HasIssue(chainResult, "A", "missing_reference")
    /\ InSeq(<<"A", "C">>, chainResult.fetched)
    /\ \E n \in 1..Len(chainResult.derivation_chain) :
            chainResult.derivation_chain[n].fragment_id = "C"
    /\ chainResult.validity = "broken"

\* A derives from B and from C, and both derive from D.
Diamond == {<<"A", "B">>, <<"A", "C">>, <<"B", "D">>, <<"C", "D">>}

\* C18: when the DERIVED_FROM relations are A -> B, A -> C, B -> D, C -> D
\* and every fragment exists, a check started at A records no
\* circular_dependency issue and returns validity valid.
C18_SharedSourceValid ==
    ( /\ chainResult.status = "ok"
      /\ chainResult.fragment_id = "A"
      /\ DerivedEdges(chainResult.relationsData) = Diamond
      /\ chainResult.failing = {} )
    => /\ \A i \in 1..Len(chainResult.issues) :
            chainResult.issues[i].issue_type # "circular_dependency"
       /\ chainResult.validity = "valid"

\* A derives from B, B from C, C from D.
LinearChain == {<<"A", "B">>, <<"B", "C">>, <<"C", "D">>}

\* C19: whenever the caller gave a max_depth >= 0, no entry of
\* derivation_chain is deeper than max_depth; and a check of the chain
\* A -> B -> C -> D, every fragment existing, that stops at the depth limit
\* records no issue and returns validity valid.
C19_DepthLimit ==
    (chainResult.status = "ok" /\ chainResult.max_depth.given)
    => /\ \A i \in 1..Len(chainResult.derivation_chain) :
            chainResult.derivation_chain[i].depth <= chainResult.max_depth.v
       /\ ( /\ chainResult.fragment_id = "A"
            /\ DerivedEdges(chainResult.relationsData) = LinearChain
            /\ chainResult.failing = {} )
          => (chainResult.issues = <<>> /\ chainResult.validity = "valid")

\* The DERIVED_FROM relations of the listing a call obtained.
DerivedFromCount ==
    Cardinality({i \in 1..Len(chainResult.relationsData) :
                    chainResult.relationsData[i].type = "DERIVED_FROM"})

\* C26: a call ends after a bounded number of steps whatever the relations
\* (cycles and self-loops included) and whatever max_depth: traverse is
\* called at most once for the root and once per DERIVED_FROM relation,
\* a source is fetched at most once per relation, and no fragment UUID
\* appears twice in the derivation_chain returned.
C26_TraversalBounded ==
    chainResult.status = "ok" =>
        /\ Len(chainResult.calls) <= 1 + DerivedFromCount
        /\ Len(chainResult.fetched) <= DerivedFromCount
        /\ chainResult.chain_depth = Len(chainResult.derivation_chain)
        /\ \A i, j \in 1..Len(chainResult.derivation_chain) :
                i # j => chainResult.derivation_chain[i].fragment_id
                            # chainResult.derivation_chain[j].fragment_id

\* A self-loop on A and the cycle A -> B -> C -> A under the default depth
\* limit: five calls of traverse, three entries in the chain.
C26_Witness ==
    /\ chainResult.status = "ok"
    /\ chainResult.fragment_id = "A"
    /\ chainResult.max_depth = NoMaxDepth
    /\ chainResult.relationsData = <<DerivedFrom("A", "A"), DerivedFrom("A", "B"),
                                      DerivedFrom("B", "C"), DerivedFrom("C", "A")>>
    /\ Len(chainResult.calls) = 5
    /\ [i \in 1..3 |-> chainResult.derivation_chain[i].fragment_id] = <<"A", "B", "C">>

(***************************************************************************)
(* wisdom_load_context_for_task against a gateway whose search index       *)
(* other agents add fragments to.                                          *)
(***************************************************************************)
InitContext ==
    /\ gwSearch = <<>>
    /\ ctxResult = CtxNone
    /\ CryptoIdle /\ PayloadIdle /\ CacheIdle /\ AddressIdle /\ GatewayIdle /\ ToolIdle
    /\ PresetIdle /\ ServerIdle /\ SessionIdle /\ ConfigIdle

ContextFrame == UNCHANGED <<cryptoVars, payloadVars, cacheVars, addressVars, gatewayVars,
                            toolVars, presetVars, serverVars, sessionVars, configVars>>

\* A fragment that matches the task is created at the gateway.
IndexFragment(f) ==
    /\ ctxResult.status = "none"
    /\ Len(gwSearch) < MaxSearchItems
    /\ \A i \in 1..Len(gwSearch) : gwSearch[i].uuid # f.uuid
    /\ gwSearch' = Append(gwSearch, f)
    /\ UNCHANGED ctxResult
    /\ ContextFrame

\* One call of the tool, from the request to the response.
LoadContextForTask(tokenBudgetArg, minConfidenceArg, searchOk) ==
    /\ ctxResult.status = "none"
    /\ ctxResult' = LoadContextForTaskHandler(tokenBudgetArg, minConfidenceArg,
                                              gwSearch, searchOk)
    /\ UNCHANGED gwSearch
    /\ ContextFrame

\* The caller has taken the response.
DeliverContext ==
    /\ ctxResult.status # "none"
    /\ ctxResult' = CtxNone
    /\ UNCHANGED gwSearch
    /\ ContextFrame

NextContext ==
    \/ \E f \in CtxFragments : IndexFragment(f)
    \/ \E b \in TokenBudgetArgs, m \in MinConfidenceArgs, searchOk \in BOOLEAN :
            LoadContextForTask(b, m, searchOk)
    \/ DeliverContext

SpecContext == InitContext /\ [][NextContext]_vars

\* The estimated size in characters of the first n returned fragments.
RECURSIVE ReturnedChars(_, _)
ReturnedChars(fragments, n) ==
    IF n = 0 THEN 0
    ELSE ReturnedChars(fragments, n - 1) + fragments[n].content_length + 100

\* C11: whenever the caller gave a token_budget >= 0, the returned
\* fragments' content lengths plus 100 each sum to at most 4 * token_budget.
C11_WithinRequestedBudget ==
    (ctxResult.status = "ok" /\ ctxResult.token_budget_arg.given)
    => ReturnedChars(ctxResult.fragments, Len(ctxResult.fragments))
            <= 4 * ctxResult.token_budget_arg.v

\* The position in the search result of the k-th returned fragment.
ReturnedPosition(k) ==
    CHOOSE i \in 1..Len(ctxResult.searchData) :
        ctxResult.searchData[i].uuid = ctxResult.fragments[k].uuid

ReturnedPositions == {ReturnedPosition(k) : k \in 1..Len(ctxResult.fragments)}

\* The positions of the search result that pass the confidence threshold
\* the call ran with.
CandidatePositions ==
    {i \in 1..Len(ctxResult.searchData) :
        ConfidenceOf(ctxResult.searchData[i])
            >= NumberOr(ctxResult.min_confidence_arg, DefaultMinConfidence)}

\* (trust_score + 1) * confidence, twice the relevance, in millionths
TwiceRelevance(i) ==
    (TrustOf(ctxResult.searchData[i]) + 1000) * ConfidenceOf(ctxResult.searchData[i])

\* Position i is ranked before position j.
RankedBefore(i, j) ==
    \/ TwiceRelevance(i) > TwiceRelevance(j)
    \/ TwiceRelevance(i) = TwiceRelevance(j) /\ i < j

FragmentChars(i) == ctxResult.searchData[i].content_length + 100

\* C12: the returned fragments are a prefix of the candidates ranked by
\* descending relevance with ties in search order; the first candidate left
\* out is one that would have exceeded the budget, and nothing ranked after
\* it is returned.
C12_RankedPrefix ==
    ctxResult.status = "ok" =>
        LET n == Len(ctxResult.fragments)
            leftOut == CandidatePositions \ ReturnedPositions
        IN /\ ReturnedPositions \subseteq CandidatePositions
           /\ \A k, l \in 1..n :
                k < l => RankedBefore(ReturnedPosition(k), ReturnedPosition(l))
           /\ \A k \in 1..n, c \in leftOut : RankedBefore(ReturnedPosition(k), c)
           /\ \A c \in leftOut :
                (\A d \in leftOut \ {c} : RankedBefore(c, d))
                => ReturnedChars(ctxResult.fragments, n) + FragmentChars(c)
                        > 4 * ctxResult.token_budget

\* The call stopped at a fragment that tied with the one returned before it,
\* and a candidate ranked after the stopping one would have fitted.
C12_Witness ==
    /\ ctxResult.status = "ok"
    /\ Len(ctxResult.fragments) = 1
    /\ ctxResult.fragments[1].uuid = "f3"
    /\ \E c, d \in CandidatePositions \ ReturnedPositions :
        /\ TwiceRelevance(c) = TwiceRelevance(ReturnedPosition(1))
        /\ RankedBefore(c, d)
        /\ ctxResult.totalChars + FragmentChars(d) <= 4 * ctxResult.token_budget

\* C20: whenever the caller gave a min_confidence, the candidates are
\* exactly the fragments of the search result whose confidence (0.5 when
\* absent) is at least min_confidence, and no returned fragment is below it.
C20_ConfidenceFilter ==
    (ctxResult.status = "ok" /\ ctxResult.min_confidence_arg.given)
    => LET min == ctxResult.min_confidence_arg.v
           Conf(f) == IF f.hasConfidence THEN f.confidence ELSE 500
       IN /\ {ctxResult.filteredFragments[i].uuid :
                    i \in 1..Len(ctxResult.filteredFragments)}
              = {ctxResult.searchData[i].uuid :
                    i \in {j \in 1..Len(ctxResult.searchData) :
                                Conf(ctxResult.searchData[j]) >= min}}
          /\ \A k \in 1..Len(ctxResult.fragments) : Conf(ctxResult.fragments[k]) >= min

(***************************************************************************)
(* selectPreset called with every fragment type and context pressure.      *)
(***************************************************************************)
InitPreset ==
    /\ presetCall = PresetNone
    /\ CryptoIdle /\ PayloadIdle /\ CacheIdle /\ AddressIdle /\ GatewayIdle /\ ToolIdle
    /\ ContextIdle /\ ServerIdle /\ SessionIdle /\ ConfigIdle

PresetFrame == UNCHANGED <<cryptoVars, payloadVars, cacheVars, addressVars, gatewayVars,
                           toolVars, contextVars, serverVars, sessionVars, configVars>>

\* selectPreset(fragmentType, contextPressure)
SelectPreset(fragmentType, contextPressure) ==
    /\ presetCall' = PresetCall(fragmentType, contextPressure,
                                selectPreset(fragmentType, contextPressure))
    /\ PresetFrame

NextPreset ==
    \E t \in FragmentTypeNames, p \in ContextPressures : SelectPreset(t, p)

SpecPreset == InitPreset /\ [][NextPreset]_vars

\* C13: at context pressure 0.7 selectPreset returns the type's entry of
\* TYPE_TO_PRESET, or 't1-symbolic' for a type without one; at 0.71 it
\* returns the high-pressure result.
C13_PressureBoundary ==
    LET t == presetCall.fragmentType
    IN /\ presetCall.contextPressure = Number(70)
            => presetCall.result =
                    (IF t \in DOMAIN TYPE_TO_PRESET THEN TYPE_TO_PRESET[t]
                     ELSE "t1-symbolic")
       /\ presetCall.contextPressure = Number(71)
            => presetCall.result =
                    (IF t \in {"HYPOTHESIS", "SYNTHESIS", "INSIGHT"} THEN "t1-symbolic"
                     ELSE "t3-compact")

\* selectPreset('HYPOTHESIS', 0.7) has returned HYPOTHESIS's own preset,
\* which the high-pressure branch does not return for it.
C13_Witness ==
    /\ presetCall.contextPressure = Number(70)
    /\ presetCall.fragmentType = "HYPOTHESIS"
    /\ presetCall.result = "t4-hybrid"

\* C14: for a context pressure above 0.7 the preset returned has the
\* highest expected_compression among PRESETS, whatever the fragment type.
C14_HighestCompression ==
    (presetCall.contextPressure.given /\ presetCall.contextPressure.v > 70)
    => \A k \in DOMAIN PRESETS :
            PRESETS[presetCall.result].expected_compression
                >= PRESETS[k].expected_compression

(***************************************************************************)
(* Tool calls through the dispatcher of a server started with some         *)
(* configuration, against a gateway whose hub status changes.              *)
(***************************************************************************)
InitServer ==
    /\ config \in Configs
    /\ keyManager = KeyManagerSetConfig(config)
    /\ gwHubHeaders = HubHeaders("", "")
    /\ lastHubStatus = NullHubStatus
    /\ lastHeaders = NoHeaders
    /\ gwRequests = <<>>
    /\ response = NoResponse
    /\ CryptoIdle /\ PayloadIdle /\ CacheIdle /\ AddressIdle /\ GatewayIdle /\ ToolIdle
    /\ ContextIdle /\ PresetIdle /\ SessionIdle /\ ConfigIdle

ServerFrame == UNCHANGED <<config, keyManager, cryptoVars, payloadVars, cacheVars,
                           addressVars, gatewayVars, toolVars, contextVars, presetVars, sessionVars, configVars>>

\* The hub's load changes, and with it the headers of the gateway's responses.
HubChanges(headers) ==
    /\ response.status = "none"
    /\ headers # gwHubHeaders
    /\ gwHubHeaders' = headers
    /\ UNCHANGED <<lastHubStatus, lastHeaders, gwRequests, response>>
    /\ ServerFrame

\* One tool call, from the request to the response.
CallTool(name, args, env) ==
    /\ response.status = "none"
    /\ LET done == CallToolRequestHandler(name, args, config, keyManager, lastHubStatus,
                                          env, gwHubHeaders)
       IN /\ response' = done.response
          /\ gwRequests' = done.requests
          /\ lastHubStatus' = done.lastHubStatus
          /\ lastHeaders' = IF \E i \in 1..Len(done.requests) :
                                    done.requests[i].outcome # "network_error"
                            THEN gwHubHeaders ELSE lastHeaders
    /\ UNCHANGED gwHubHeaders
    /\ ServerFrame

\* The caller has taken the response.
DeliverResponse ==
    /\ response.status # "none"
    /\ response' = NoResponse
    /\ gwRequests' = <<>>
    /\ UNCHANGED <<gwHubHeaders, lastHubStatus, lastHeaders>>
    /\ ServerFrame

NextServer ==
    \/ \E h \in HubHeaderSets : HubChanges(h)
    \/ \E name \in ToolNames, args \in ToolArgSets, env \in GatewayEnvs :
            CallTool(name, args, env)
    \/ DeliverResponse

SpecServer == InitServer /\ [][NextServer]_vars

\* C15: a call of wisdom_create_fragment or
\* wisdom_store_transformed_fragments that gives no source_transform
\* returns an error, and no createFragment request carries a fragment
\* without a transform address.
C15_TransformRequired ==
    /\ ( /\ response.status = "returned"
         /\ response.name \in {"wisdom_create_fragment",
                               "wisdom_store_transformed_fragments"}
         /\ response.args.source_transform = Undefined )
       => (response.hasIsError /\ response.isError)
    /\ \A i \in 1..Len(gwRequests) :
            gwRequests[i].op = "createFragment" => gwRequests[i].transform # Undefined

\* C16: a call of a signing tool on a server with no private key or no
\* agent UUID configured fails with a message that names
\* wisdom_generate_keypair, and the call has made no gateway request.
C16_KeyPrecondition ==
    ( /\ response.status = "returned"
      /\ response.name \in SigningTools
      /\ (config.private_key = "" \/ config.agent_uuid = "") )
    => /\ response.hasIsError /\ response.isError
       /\ Head(response.content[1]) = "Error: "
       /\ InSeq("wisdom_generate_keypair", response.content[1])
       /\ gwRequests = <<>>

\* wisdom_tag_fragment with a tag name, which the handler would look up at
\* the gateway first, on a server with a private key and no agent UUID.
C16_Witness ==
    /\ response.status = "returned"
    /\ response.name = "wisdom_tag_fragment"
    /\ ~response.args.tag_is_uuid
    /\ config = Config("key-1", "")
    /\ response.isError
    /\ response.content[1] = <<"Error: ">> \o NoAgentMessage
    /\ gwRequests = <<>>

\* C17: every call gets a response.  For a name that is not in toolMap it
\* has isError = true and the text 'Unknown tool: <name>', and no handler
\* ran; when the handler threw it has isError = true and the text
\* 'Error: <message>'; otherwise it has the handler's result and no isError.
C17_Dispatch ==
    response.status = "returned" =>
        /\ Len(response.content) >= 1
        /\ response.name \notin toolMap =>
            /\ response.hasIsError /\ response.isError
            /\ response.content = <<<<"Unknown tool: ", response.name>>>>
            /\ ~response.ran /\ gwRequests = <<>>
        /\ (response.name \in toolMap /\ response.threw) =>
            /\ response.ran
            /\ response.hasIsError /\ response.isError
            /\ response.content[1] = <<"Error: ">> \o response.message
        /\ (response.name \in toolMap /\ ~response.threw) =>
            /\ response.ran
            /\ ~response.hasIsError
            /\ response.content[1] = <<"JSON">> \o response.result

\* A handler threw after a gateway request failed while the hub was
\* critical: the error text comes first, the hub warnings after it.
C17_Witness ==
    /\ response.status = "returned"
    /\ response.name = "wisdom_create_relation"
    /\ response.threw /\ response.isError
    /\ response.content[1] = <<"Error: ">> \o GatewayErrorMessage
    /\ Len(response.content) = 2
    /\ Len(gwRequests) = 1

(***************************************************************************)
(* A session of tool calls that create or fetch entities, sharing one      *)
(* AddressCache of the default capacity.                                   *)
(***************************************************************************)
InitSession ==
    /\ cache = <<>>
    /\ maxSize = DefaultMaxSize
    /\ lastTouch = [k \in CacheKeys |-> 0]
    /\ lastPut = [k \in CacheKeys |-> NoAddress]
    /\ clock = 0
    /\ cacheOp = CacheOp("new", "", "", Undefined, NoAddress, NoAddress, FALSE)
    /\ cfgHubHost \in SessHubHosts
    /\ gwFragments = <<>>
    /\ sessCall = SessNone
    /\ CryptoIdle /\ PayloadIdle /\ AddressIdle /\ GatewayIdle /\ ToolIdle
    /\ ContextIdle /\ PresetIdle /\ ServerIdle /\ ConfigIdle

SessionFrame == UNCHANGED <<cfgHubHost, maxSize, lastTouch, lastPut, clock, cacheOp,
                            cryptoVars, payloadVars, addressVars, gatewayVars, toolVars,
                            contextVars, presetVars, serverVars, configVars>>

StoredUuids == {gwFragments[i].uuid : i \in 1..Len(gwFragments)}
StoredFragment(uuid) == gwFragments[CHOOSE i \in 1..Len(gwFragments) : gwFragments[i].uuid = uuid]

\* The tool call ends with the given outcome.
Finish(tool, outcome) ==
    /\ sessCall' = SessCall(tool, outcome, cache)
    /\ cache' = outcome.cache

CreateFragment(uuid, sourceTransform, gatewayOk, server_port) ==
    /\ uuid \notin StoredUuids
    /\ Finish("wisdom_create_fragment",
              CreateFragmentTool(cache, maxSize, cfgHubHost, sourceTransform, gatewayOk,
                                 GwFragment(uuid, server_port)))
    /\ gwFragments' = IF gatewayOk THEN Append(gwFragments, GwFragment(uuid, server_port))
                      ELSE gwFragments
    /\ SessionFrame

\* The gateway answers a GET of a stored fragment, and fails otherwise.
GetFragment(uuid, gatewayOk) ==
    /\ gatewayOk => uuid \in StoredUuids
    /\ Finish("wisdom_get_fragment",
              GetFragmentTool(cache, maxSize, gatewayOk,
                              IF gatewayOk THEN StoredFragment(uuid) ELSE GwFragment(uuid, "")))
    /\ UNCHANGED gwFragments
    /\ SessionFrame

SearchFragments(gatewayOk) ==
    /\ Finish("wisdom_search_fragments",
              SearchFragmentsTool(cache, maxSize, gatewayOk, gwFragments))
    /\ UNCHANGED gwFragments
    /\ SessionFrame

CreateTag(tagUuid, gatewayOk) ==
    /\ Finish("wisdom_create_tag", CreateTagTool(cache, cfgHubHost, gatewayOk, tagUuid))
    /\ UNCHANGED gwFragments
    /\ SessionFrame

CreateTransform(transformUuid, gatewayOk) ==
    /\ Finish("wisdom_create_transform",
              CreateTransformTool(cache, cfgHubHost, gatewayOk, transformUuid))
    /\ UNCHANGED gwFragments
    /\ SessionFrame

CreateRelation(source, target, gatewayOk, relationUuid) ==
    /\ Finish("wisdom_create_relation",
              CreateRelationTool(cache, source, target, gatewayOk, relationUuid))
    /\ UNCHANGED gwFragments
    /\ SessionFrame

TypeFragment(fragment, typeTagUuid, gatewayOk, relationUuid) ==
    /\ Finish("wisdom_type_fragment",
              TypeFragmentTool(cache, fragment, typeTagUuid, gatewayOk, relationUuid))
    /\ UNCHANGED gwFragments
    /\ SessionFrame

LinkAnswer(answer, question, gatewayOk, relationUuid) ==
    /\ Finish("wisdom_link_answer",
              LinkAnswerTool(cache, answer, question, gatewayOk, relationUuid))
    /\ UNCHANGED gwFragments
    /\ SessionFrame

TagFragment(fragment, tagUuid, gatewayOk, relationUuid) ==
    /\ Finish("wisdom_tag_fragment",
              TagFragmentTool(cache, cfgHubHost, fragment, tagUuid, gatewayOk, relationUuid))
    /\ UNCHANGED gwFragments
    /\ SessionFrame

NextSession ==
    \/ \E uuid \in FragmentUuids, x \in TransformUuids, ok \in BOOLEAN, sp \in GwServerPorts :
            CreateFragment(uuid, x, ok, sp)
    \/ \E uuid \in FragmentUuids, ok \in BOOLEAN : GetFragment(uuid, ok)
    \/ \E ok \in BOOLEAN : SearchFragments(ok)
    \/ \E t \in TagUuids, ok \in BOOLEAN : CreateTag(t, ok)
    \/ \E x \in TransformUuids, ok \in BOOLEAN : CreateTransform(x, ok)
    \/ \E s \in FragmentUuids, t \in FragmentUuids, ok \in BOOLEAN, r \in RelationUuids :
            CreateRelation(s, t, ok, r)
    \/ \E f \in FragmentUuids, t \in TagUuids, ok \in BOOLEAN, r \in RelationUuids :
            TypeFragment(f, t, ok, r)
    \/ \E a \in FragmentUuids, q \in FragmentUuids, ok \in BOOLEAN, r \in RelationUuids :
            LinkAnswer(a, q, ok, r)
    \/ \E f \in FragmentUuids, t \in TagUuids, ok \in BOOLEAN, r \in RelationUuids :
            TagFragment(f, t, ok, r)

SpecSession == InitSession /\ [][NextSession]_vars

\* C21: after a successful tool call that creates or fetches entities, the
\* address cache holds an entry for the UUID of every entity the call
\* returned.
C21_CachePopulated ==
    sessCall.status = "ok" =>
        \A i \in 1..Len(sessCall.returned) : MapHas(cache, sessCall.returned[i])

\* C22: every reference of a signed request to an entity whose address was
\* in the cache when the call began carries exactly that cached address.
C22_CachedAddressUsed ==
    sessCall.status # "none" =>
        \A i \in 1..Len(sessCall.refs) :
            LET ref == sessCall.refs[i]
            IN MapHas(sessCall.before, ref.uuid) =>
                    ref.addr = MapGet(sessCall.before, ref.uuid)

\* The createFragment requests a call made, as the items they carried and
\* whether the gateway created them.
BatchItems == [i \in 1..Len(gwRequests) |-> gwRequests[i].item]
BatchCreated == {gwRequests[i].item : i \in {j \in 1..Len(gwRequests) : gwRequests[j].outcome = "ok"}}

\* C23: wisdom_store_transformed_fragments submits the fragments one after
\* another in input order; when the request for fragment k fails, fragments
\* 1..k-1 are created at the gateway and no request undoes them, fragments
\* after k are never submitted, and the call ends as one error whose text is
\* the error message, without the list of the fragments created.
C23_BatchStore ==
    ( /\ response.status = "returned"
      /\ response.name = "wisdom_store_transformed_fragments"
      /\ config.private_key # "" /\ config.agent_uuid # "" )
    => /\ \A i \in 1..Len(gwRequests) :
            gwRequests[i].op = "createFragment" /\ gwRequests[i].item = i
       /\ IF \E k \in 1..Len(gwRequests) : gwRequests[k].outcome # "ok"
          THEN LET k == CHOOSE j \in 1..Len(gwRequests) : gwRequests[j].outcome # "ok"
               IN /\ k = Len(gwRequests)
                  /\ BatchCreated = 1..(k - 1)
                  /\ response.hasIsError /\ response.isError
                  /\ response.content[1] = <<"Error: ">> \o RequestErrorMessage(gwRequests[k].outcome)
                  /\ response.result = <<>>
                  /\ ~InSeq("stored", response.content[1])
          ELSE /\ Len(gwRequests) = response.args.fragments
               /\ BatchCreated = 1..response.args.fragments
               /\ ~response.hasIsError
               /\ response.content[1] = <<"JSON", "stored", response.args.fragments>>

\* Three fragments, the gateway refusing the second: the first is created,
\* the third is never sent, and the response is the error alone.
C23_Witness ==
    /\ response.status = "returned"
    /\ response.name = "wisdom_store_transformed_fragments"
    /\ response.args.fragments = 3
    /\ BatchItems = <<1, 2>>
    /\ BatchCreated = {1}
    /\ gwRequests[2].outcome = "http_error"
    /\ response.isError
    /\ response.content = <<<<"Error: ">> \o GatewayErrorMessage>>

(***************************************************************************)
(* wisdom_find_contradictions against a gateway that other agents add      *)
(* relations to and where fragments can be missing.                        *)
(***************************************************************************)
InitContra ==
    /\ gwRelations = <<>>
    /\ gwFailing \in SUBSET ContraFragments
    /\ evResult = EvNone
    /\ chainResult = ChainNone
    /\ contraResult = ContraNone
    /\ CryptoIdle /\ PayloadIdle /\ CacheIdle /\ AddressIdle
    /\ ContextIdle /\ PresetIdle /\ ServerIdle /\ SessionIdle /\ ConfigIdle

ContraFrame == UNCHANGED <<gwFailing, evResult, chainResult, cryptoVars, payloadVars,
                           cacheVars, addressVars, contextVars, presetVars, serverVars,
                           sessionVars, configVars>>

\* A relation is created at the gateway.
StoreContraRelation(r) ==
    /\ contraResult.status = "none"
    /\ Len(gwRelations) < MaxContraRelations
    /\ gwRelations' = Append(gwRelations, r)
    /\ UNCHANGED contraResult
    /\ ContraFrame

\* One call of the tool, from the request to the response.
FindContradictions(fragmentId, listOk) ==
    /\ contraResult.status = "none"
    /\ contraResult' = FindContradictionsHandler(fragmentId, gwRelations, gwFailing, listOk)
    /\ UNCHANGED gwRelations
    /\ ContraFrame

\* The caller has taken the response.
DeliverContra ==
    /\ contraResult.status # "none"
    /\ contraResult' = ContraNone
    /\ UNCHANGED gwRelations
    /\ ContraFrame

NextContra ==
    \/ \E r \in ContraRelations : StoreContraRelation(r)
    \/ \E f \in ContraFragments, listOk \in BOOLEAN : FindContradictions(f, listOk)
    \/ DeliverContra

SpecContra == InitContra /\ [][NextContra]_vars

\* The positions, in the listing the call obtained, of the CONTRADICTS
\* relations whose target is the fragment.
ContraPositions ==
    {i \in 1..Len(contraResult.relationsData) :
        /\ contraResult.relationsData[i].to.entity = contraResult.fragment_id
        /\ contraResult.relationsData[i].type = "CONTRADICTS"}

\* The position of the n-th such relation.
RECURSIVE NthContra(_)
NthContra(n) ==
    IF n = 1 THEN CHOOSE i \in ContraPositions : \A j \in ContraPositions : i <= j
    ELSE CHOOSE i \in ContraPositions :
            /\ i > NthContra(n - 1)
            /\ \A j \in ContraPositions : j > NthContra(n - 1) => i <= j

\* C24: a call whose fragment and listing requests succeed succeeds, with
\* one entry per CONTRADICTS relation of the listing whose target is the
\* fragment, in the order of the listing; the entry of a relation whose
\* source fragment cannot be fetched is the placeholder (the source's uuid,
\* '[Fragment not found]', confidence 0, creator 'unknown'), and
\* contradiction_count is the number of these relations.
C24_Contradictions ==
    /\ contraResult.status # "none" =>
        (contraResult.status = "ok"
            <=> (contraResult.fragment_id \notin gwFailing /\ contraResult.listOk))
    /\ contraResult.status = "ok" =>
        /\ contraResult.contradiction_count = Cardinality(ContraPositions)
        /\ Len(contraResult.contradictions) = Cardinality(ContraPositions)
        /\ \A n \in 1..Cardinality(ContraPositions) :
            LET rel == contraResult.relationsData[NthContra(n)]
                entry == contraResult.contradictions[n]
            IN /\ entry.uuid = rel.from.entity
               /\ entry.hasRelationConfidence = rel.hasConfidence
               /\ entry.relation_confidence = rel.confidence
               /\ rel.from.entity \in gwFailing =>
                    /\ entry.content = FragmentNotFoundText
                    /\ entry.confidence = 0
                    /\ entry.creator = <<"unknown">>
               /\ rel.from.entity \notin gwFailing =>
                    /\ entry.content = FetchedFragment(rel.from.entity).content
                    /\ entry.confidence = FetchedFragment(rel.from.entity).confidence
                    /\ entry.creator # <<"unknown">>

\* Two contradicting relations, the source of the first missing and the
\* source of the second present: a placeholder followed by a full entry.
C24_Witness ==
    /\ contraResult.status = "ok"
    /\ contraResult.fragment_id = "F"
    /\ gwFailing = {"G"}
    /\ contraResult.contradiction_count = 2
    /\ contraResult.contradictions[1].uuid = "G"
    /\ contraResult.contradictions[1].content = FragmentNotFoundText
    /\ contraResult.contradictions[2].uuid = "K"
    /\ contraResult.contradictions[2].content = <<"content of ", "K">>
    /\ Len(contraResult.relationsData) = 3

\* The warnings the headers of a gateway response call for: none without an
\* X-Hub-Status header or at level normal, otherwise the hint, if there is
\* one, followed by the notice of the level warning or critical.
WarningsFor(headers) ==
    IF headers = NoHeaders \/ headers.status \in {"", "normal"} THEN <<>>
    ELSE (IF headers.hint # "" THEN <<headers.hint>> ELSE <<>>)
         \o CASE headers.status = "critical" ->
                    <<"WARNING: Hub at critical capacity. Some operations may be restricted.">>
              [] headers.status = "warning" -> <<"NOTICE: Hub resources are running low.">>
              [] OTHER -> <<>>

MaxPendingSaves == 2    \* saves scheduled and not yet run
ProjectIds == {1, 2}

InitProject ==
    /\ CryptoIdle /\ PayloadIdle /\ CacheIdle /\ AddressIdle /\ GatewayIdle /\ ToolIdle
    /\ ContextIdle /\ PresetIdle /\ ServerIdle /\ SessionIdle
    /\ hasProjectRoot \in BOOLEAN
    /\ globalFile \in {WisdomConfig(k, k, p) : k \in {Missing, 1}, p \in {Missing, 1}}
    /\ projectFile \in {WisdomConfig(Missing, Missing, p) : p \in IF hasProjectRoot THEN {Missing, 1} ELSE {Missing}}
    /\ envConfig = EmptyConfig
    /\ memConfig = loadConfig(globalFile, envConfig, projectFile, hasProjectRoot)
    /\ generated = 1
    /\ pendingSaves = <<>>
    /\ saveRejected = FALSE
    /\ cfgResponse = CfgNone

ConfigFrame == UNCHANGED <<cryptoVars, payloadVars, cacheVars, addressVars, gatewayVars, toolVars, contextVars, presetVars, serverVars, sessionVars>>

ProjectCallReady ==
    /\ cfgResponse = CfgNone
    /\ Len(pendingSaves) < MaxPendingSaves

FinishProjectCall(done) ==
    /\ memConfig' = done.config
    /\ pendingSaves' = done.pending
    /\ cfgResponse' = done.response
    /\ UNCHANGED <<projectFile, globalFile, envConfig, hasProjectRoot, generated, saveRejected>>
    /\ ConfigFrame

SetProject(projectUuid, persist, projectFound) ==
    /\ ProjectCallReady
    /\ FinishProjectCall(SetProjectHandler(memConfig, pendingSaves, projectUuid, persist, projectFound, hasProjectRoot))

CreateProject(projectId, setAsCurrent, created) ==
    /\ ProjectCallReady
    /\ FinishProjectCall(CreateProjectHandler(memConfig, pendingSaves, projectId, setAsCurrent, created, hasProjectRoot))

ClearProject(persist) ==
    /\ ProjectCallReady
    /\ FinishProjectCall(ClearProjectHandler(memConfig, pendingSaves, persist, hasProjectRoot))

\* The callback of import('./config/loader.js').then(...): the oldest
\* scheduled save runs; a write that throws rejects a promise nobody holds.
RunPendingSave(writeOk) ==
    /\ pendingSaves # <<>>
    /\ LET save == Head(pendingSaves)
           files == SaveTo(save.target, Files(projectFile, globalFile), save.updates, writeOk)
       IN /\ projectFile' = files.project
          /\ globalFile' = files.global
    /\ pendingSaves' = Tail(pendingSaves)
    /\ saveRejected' = (saveRejected \/ ~writeOk)
    /\ UNCHANGED <<memConfig, envConfig, hasProjectRoot, generated, cfgResponse>>
    /\ ConfigFrame

\* The client has read the response; the next call may start.
DeliverProject ==
    /\ cfgResponse # CfgNone
    /\ cfgResponse' = CfgNone
    /\ UNCHANGED <<memConfig, projectFile, globalFile, envConfig, hasProjectRoot, generated, pendingSaves, saveRejected>>
    /\ ConfigFrame

NextProject ==
    \/ \E projectUuid \in ProjectIds, persist \in BOOLEAN, projectFound \in BOOLEAN : SetProject(projectUuid, persist, projectFound)
    \/ \E projectId \in ProjectIds, setAsCurrent \in BOOLEAN, created \in BOOLEAN : CreateProject(projectId, setAsCurrent, created)
    \/ \E persist \in BOOLEAN : ClearProject(persist)
    \/ \E writeOk \in BOOLEAN : RunPendingSave(writeOk)
    \/ DeliverProject

SpecProject == InitProject /\ [][NextProject]_vars

\* The configuration file updateConfig saves to.
TargetFile(target) == IF target = "project" THEN projectFile ELSE globalFile

\* C28: when wisdom_set_project, wisdom_create_project or wisdom_clear_project
\* has returned persisted: true (is_current: true), the configuration file
\* already holds the new current_project, and no write has failed without the
\* call that asked for it returning an error.
C28_PersistedWritten ==
    /\ (~cfgResponse.isError /\ cfgResponse.persisted) =>
            TargetFile(cfgResponse.target).current_project = cfgResponse.project
    /\ ~saveRejected

\* ---------------------------------------------------------------------------
\* SpecKeys: wisdom_generate_keypair, wisdom_quickstart and
\* wisdom_reload_config.  Every source of the configuration starts empty or
\* with key pair 1 and the agent registered with it.
\* ---------------------------------------------------------------------------
MaxGenerated == 3       \* key pairs generated, the initial one included
SaveTargets == {"project", "global"}
KeySources == {EmptyConfig, WisdomConfig(1, 1, Missing)}

InitKeys ==
    /\ CryptoIdle /\ PayloadIdle /\ CacheIdle /\ AddressIdle /\ GatewayIdle /\ ToolIdle
    /\ ContextIdle /\ PresetIdle /\ ServerIdle /\ SessionIdle
    /\ hasProjectRoot \in BOOLEAN
    /\ globalFile \in KeySources
    /\ envConfig \in KeySources
    /\ projectFile \in IF hasProjectRoot THEN KeySources ELSE {EmptyConfig}
    /\ memConfig = loadConfig(globalFile, envConfig, projectFile, hasProjectRoot)
    /\ generated = 1
    /\ pendingSaves = <<>>
    /\ saveRejected = FALSE
    /\ cfgResponse = CfgNone

FinishKeyCall(tool, done) ==
    /\ memConfig' = done.config
    /\ projectFile' = done.files.project
    /\ globalFile' = done.files.global
    /\ cfgResponse' = CfgResponse(tool, FALSE, FALSE, Missing, "global")
    /\ UNCHANGED <<envConfig, hasProjectRoot, pendingSaves, saveRejected>>
    /\ ConfigFrame

GenerateKeypair(register, registrationOk, saveTo, writeOk) ==
    /\ generated < MaxGenerated
    /\ generated' = generated + 1
    /\ FinishKeyCall("wisdom_generate_keypair", GenerateKeypairHandler(memConfig, Files(projectFile, globalFile), generated + 1, register, registrationOk, saveTo, writeOk, hasProjectRoot))

Quickstart(registrationOk, writeOk) ==
    /\ generated < MaxGenerated
    /\ generated' = IF memConfig.private_key = Missing \/ memConfig.agent_uuid = Missing THEN generated + 1 ELSE generated
    /\ FinishKeyCall("wisdom_quickstart", QuickstartHandler(memConfig, Files(projectFile, globalFile), generated + 1, registrationOk, writeOk, hasProjectRoot))

ReloadConfig ==
    /\ generated' = generated
    /\ FinishKeyCall("wisdom_reload_config", KeyOutcome(ReloadConfigHandler(Files(projectFile, globalFile), envConfig, hasProjectRoot), Files(projectFile, globalFile)))

NextKeys ==
    \/ \E register \in BOOLEAN, registrationOk \in BOOLEAN, saveTo \in SaveTargets, writeOk \in BOOLEAN : GenerateKeypair(register, registrationOk, saveTo, writeOk)
    \/ \E registrationOk \in BOOLEAN, writeOk \in BOOLEAN : Quickstart(registrationOk, writeOk)
    \/ ReloadConfig

SpecKeys == InitKeys /\ [][NextKeys]_vars

\* C30: whenever memory holds both an agent_uuid and a private_key, the key
\* is the one generated with the registration of that agent.
C30_KeyMatchesAgent ==
    (memConfig.private_key # Missing /\ memConfig.agent_uuid # Missing) =>
        memConfig.private_key = memConfig.agent_uuid

====
